---- MODULE Spec2Model ----
(***************************************************************************)
(* A model of aptitude's extended package-state engine, aptitudeDepCache   *)
(* (src/generic/apt/aptcache.cc), and of the helpers of apt.cc it uses.    *)
(*                                                                         *)
(* The package cache (packages, versions, dependency and provides lists)   *)
(* is fixed data.  The engine's state is libapt's per-package StateCache   *)
(* (PkgState), aptitude's per-package aptitude_state (package_states),     *)
(* the snapshot backup_state, group_level, dirty and read_only.  The       *)
(* state journal (pkgstates) and the files next to it are the variable     *)
(* files; save_selection_list writes it one system call at a time, and     *)
(* build_selection_list reads it into a newly constructed engine.          *)
(*                                                                         *)
(* libapt-pkg's pkgDepCache primitives (MarkInstall, MarkDelete, MarkKeep, *)
(* MarkAuto, SetReInstall, SetCandidateVersion, MarkAndSweep) are called   *)
(* by the engine and are modelled by what they do to one package's         *)
(* StateCache when called with AutoInst = false, as aptitude calls them    *)
(* in the operations modelled here.                                        *)
(***************************************************************************)
EXTENDS Integers, Sequences, FiniteSets, TLC

VARIABLES
  cache,           \* the package cache: packages, versions, dependencies
  aptcfg,          \* the configuration options the engine reads
  PkgState,        \* pkgDepCache::PkgState: libapt's StateCache per package
  package_states,  \* aptitudeDepCache::package_states: aptitude_state per package
  backup_state,    \* aptitudeDepCache::backup_state: the snapshot
  group_level,     \* nesting depth of action groups
  dirty,           \* the in-memory state has unsaved changes
  read_only,       \* the store is read-only
  lock,            \* aptitudeDepCache::lock: the lock file's descriptor, or -1
  permission,      \* what the read_only_permission hook answers
  undo_items,      \* the items of the caller's undo_group
  new_package_count, \* aptitudeDepCache::new_package_count
  user_tags,       \* the tags registered in the user_tag_collection
  files,           \* the files on disk: the journal, its .new and .old, an
                   \* alternate journal, apt's extended_states, dpkg's selections
  saving,          \* the position of save_selection_list and what it writes
  apt,             \* apt.cc's globals: apt_cache_file, resman and its thread,
                   \* and the position of the program in the cache's life cycle
  system_lock,     \* aptitudeCacheFile::have_system_lock, and the other tools
                   \* that use dpkg's lock
  nops,            \* number of operations performed so far
  last             \* observation of the last operation (what it was, what it signalled)

vars == <<cache, aptcfg, PkgState, package_states, backup_state, group_level,
          dirty, read_only, lock, permission, undo_items, new_package_count,
          user_tags, files, saving, apt, system_lock, nops, last>>

(***************************************************************************)
(* Bounds.                                                                 *)
(***************************************************************************)
\* the descriptor GetLock returns for the lock file
LockFd == 3

\* operations in one run
MaxOps == 3
\* nesting depth of explicitly opened action groups
MaxGroupLevel == 2

(***************************************************************************)
(* Sequence helpers.                                                       *)
(***************************************************************************)
Range(s) == {s[i] : i \in DOMAIN s}

(***************************************************************************)
(* The package cache.  A version is a number; 0 is the end() iterator, and *)
(* as a version string 0 is the empty string.                              *)
(***************************************************************************)
NoVer == 0

Dep(p, v, t, tgt, op, tv) ==
  [pkg |-> p, ver |-> v, type |-> t, target |-> tgt, op |-> op, tver |-> tv]

Prv(owner, over, name, pv) ==
  [owner |-> owner, over |-> over, name |-> name, pver |-> pv]

\* aptitude itself, an application a with an upgrade available that depends
\* on the automatically installed library b, and a removed package n of
\* which the configuration files remain.
CoreCache ==
  [ order        |-> <<"aptitude", "a", "b", "n">>,
    versions     |-> [aptitude |-> {1}, a |-> {1, 2}, b |-> {1}, n |-> {1}],
    current      |-> [aptitude |-> 1, a |-> 1, b |-> 1, n |-> NoVer],
    currentstate |-> [aptitude |-> "Installed", a |-> "Installed",
                      b |-> "Installed", n |-> "ConfigFiles"],
    policycand   |-> [aptitude |-> 1, a |-> 2, b |-> 1, n |-> 1],
    downloadable |-> {<<"a", 2>>, <<"n", 1>>, <<"aptitude", 1>>},
    essential    |-> {},
    important    |-> {},
    priority     |-> [aptitude |-> "optional", a |-> "optional",
                      b |-> "optional", n |-> "optional"],
    autoflag     |-> {"b"},
    selected     |-> [aptitude |-> "Install", a |-> "Install", b |-> "Install",
                      n |-> "DeInstall"],
    deps         |-> << Dep("a", 1, "Depends", "b", "any", NoVer),
                        Dep("a", 2, "Depends", "b", "any", NoVer) >>,
    notautomatic |-> {},
    provides     |-> << >> ]

\* a universe for the reinstatement of unused packages: the application a
\* depends on the automatically installed f, g and b; f depends on b, g on
\* the virtual package v that b provides; the uninstalled n conflicts with b
SweepCache ==
  [ order        |-> <<"a", "f", "g", "b", "n", "v">>,
    versions     |-> [a |-> {1}, f |-> {1}, g |-> {1}, b |-> {1}, n |-> {1},
                      v |-> {}],
    current      |-> [a |-> 1, f |-> 1, g |-> 1, b |-> 1, n |-> NoVer,
                      v |-> NoVer],
    currentstate |-> [a |-> "Installed", f |-> "Installed", g |-> "Installed",
                      b |-> "Installed", n |-> "NotInstalled",
                      v |-> "NotInstalled"],
    policycand   |-> [a |-> 1, f |-> 1, g |-> 1, b |-> 1, n |-> 1, v |-> NoVer],
    downloadable |-> {<<"n", 1>>},
    essential    |-> {},
    important    |-> {},
    priority     |-> [a |-> "optional", f |-> "optional", g |-> "optional",
                      b |-> "optional", n |-> "optional", v |-> "optional"],
    autoflag     |-> {"f", "g", "b"},
    selected     |-> [a |-> "Install", f |-> "Install", g |-> "Install",
                      b |-> "Install", n |-> "Unknown", v |-> "Unknown"],
    deps         |-> << Dep("a", 1, "Depends", "f", "any", NoVer),
                        Dep("a", 1, "Depends", "g", "any", NoVer),
                        Dep("a", 1, "Depends", "b", "any", NoVer),
                        Dep("f", 1, "Depends", "b", "any", NoVer),
                        Dep("g", 1, "Depends", "v", "any", NoVer),
                        Dep("n", 1, "Conflicts", "b", "any", NoVer) >>,
    notautomatic |-> {},
    provides     |-> << Prv("b", 1, "v", NoVer) >> ]

\* a universe with dependency cycles: the application m depends on the
\* automatically installed q, and q and the automatically installed p
\* depend on each other; p also depends on the virtual package w, which q
\* provides
CycleCache ==
  [ order        |-> <<"m", "p", "q", "w">>,
    versions     |-> [m |-> {1}, p |-> {1}, q |-> {1}, w |-> {}],
    current      |-> [m |-> 1, p |-> 1, q |-> 1, w |-> NoVer],
    currentstate |-> [m |-> "Installed", p |-> "Installed", q |-> "Installed",
                      w |-> "NotInstalled"],
    policycand   |-> [m |-> 1, p |-> 1, q |-> 1, w |-> NoVer],
    downloadable |-> {<<"m", 1>>, <<"p", 1>>, <<"q", 1>>},
    essential    |-> {},
    important    |-> {},
    priority     |-> [m |-> "optional", p |-> "optional", q |-> "optional",
                      w |-> "optional"],
    autoflag     |-> {"p", "q"},
    selected     |-> [m |-> "Install", p |-> "Install", q |-> "Install",
                      w |-> "Unknown"],
    deps         |-> << Dep("m", 1, "Depends", "q", "any", NoVer),
                        Dep("p", 1, "Depends", "q", "any", NoVer),
                        Dep("p", 1, "Depends", "w", "any", NoVer),
                        Dep("q", 1, "Depends", "p", "any", NoVer) >>,
    notautomatic |-> {},
    provides     |-> << Prv("q", 1, "w", NoVer) >> ]

\* a universe with a provider of required priority: the application a
\* depends on the automatically installed d and e and on the virtual
\* package v; e and r have priority required, r provides v
ProviderCache ==
  [ order        |-> <<"a", "d", "e", "r", "v">>,
    versions     |-> [a |-> {1}, d |-> {1}, e |-> {1}, r |-> {1}, v |-> {}],
    current      |-> [a |-> 1, d |-> 1, e |-> 1, r |-> 1, v |-> NoVer],
    currentstate |-> [a |-> "Installed", d |-> "Installed", e |-> "Installed",
                      r |-> "Installed", v |-> "NotInstalled"],
    policycand   |-> [a |-> 1, d |-> 1, e |-> 1, r |-> 1, v |-> NoVer],
    downloadable |-> {},
    essential    |-> {},
    important    |-> {},
    priority     |-> [a |-> "optional", d |-> "optional", e |-> "required",
                      r |-> "required", v |-> "optional"],
    autoflag     |-> {"d", "e", "r"},
    selected     |-> [a |-> "Install", d |-> "Install", e |-> "Install",
                      r |-> "Install", v |-> "Unknown"],
    deps         |-> << Dep("a", 1, "Depends", "d", "any", NoVer),
                        Dep("a", 1, "Depends", "e", "any", NoVer),
                        Dep("a", 1, "Depends", "v", "any", NoVer) >>,
    notautomatic |-> {},
    provides     |-> << Prv("r", 1, "v", NoVer) >> ]

\* a universe for the dependency types: the application a depends on d,
\* recommends c and suggests s, all three automatically installed
PolicyCache ==
  [ order        |-> <<"a", "c", "d", "s">>,
    versions     |-> [a |-> {1}, c |-> {1}, d |-> {1}, s |-> {1}],
    current      |-> [a |-> 1, c |-> 1, d |-> 1, s |-> 1],
    currentstate |-> [a |-> "Installed", c |-> "Installed", d |-> "Installed",
                      s |-> "Installed"],
    policycand   |-> [a |-> 1, c |-> 1, d |-> 1, s |-> 1],
    downloadable |-> {},
    essential    |-> {},
    important    |-> {},
    priority     |-> [a |-> "optional", c |-> "optional", d |-> "optional",
                      s |-> "optional"],
    autoflag     |-> {"c", "d", "s"},
    selected     |-> [a |-> "Install", c |-> "Install", d |-> "Install",
                      s |-> "Install"],
    deps         |-> << Dep("a", 1, "Depends", "d", "any", NoVer),
                        Dep("a", 1, "Recommends", "c", "any", NoVer),
                        Dep("a", 1, "Suggests", "s", "any", NoVer) >>,
    notautomatic |-> {},
    provides     |-> << >> ]

\* a universe of conflicts: the installed x has an upgrade x 2 that provides
\* the virtual package u; the absent y conflicts with x before version 2
\* and provides u; the installed z breaks u and provides u itself; x 2
\* carries a conflict on its own package
ConflictCache ==
  [ order        |-> <<"x", "y", "z", "u">>,
    versions     |-> [x |-> {1, 2}, y |-> {1}, z |-> {1}, u |-> {}],
    current      |-> [x |-> 1, y |-> NoVer, z |-> 1, u |-> NoVer],
    currentstate |-> [x |-> "Installed", y |-> "NotInstalled",
                      z |-> "Installed", u |-> "NotInstalled"],
    policycand   |-> [x |-> 2, y |-> 1, z |-> 1, u |-> NoVer],
    downloadable |-> {<<"x", 2>>, <<"y", 1>>},
    essential    |-> {},
    important    |-> {},
    priority     |-> [x |-> "optional", y |-> "optional", z |-> "optional",
                      u |-> "optional"],
    autoflag     |-> {},
    selected     |-> [x |-> "Install", y |-> "Unknown", z |-> "Install",
                      u |-> "Unknown"],
    deps         |-> << Dep("y", 1, "Conflicts", "x", "<<", 2),
                        Dep("z", 1, "Breaks", "u", "any", NoVer),
                        Dep("x", 2, "Conflicts", "x", "any", NoVer) >>,
    notautomatic |-> {},
    provides     |-> << Prv("x", 2, "u", NoVer),
                        Prv("y", 1, "u", NoVer),
                        Prv("z", 1, "u", NoVer) >> ]

\* a universe with a conflict among installed packages: the application a
\* depends on the automatically installed k and l, and l breaks k (both
\* were unpacked with the conflict overridden)
MutualCache ==
  [ order        |-> <<"a", "k", "l">>,
    versions     |-> [a |-> {1}, k |-> {1}, l |-> {1}],
    current      |-> [a |-> 1, k |-> 1, l |-> 1],
    currentstate |-> [a |-> "Installed", k |-> "Installed", l |-> "Installed"],
    policycand   |-> [a |-> 1, k |-> 1, l |-> 1],
    downloadable |-> {},
    essential    |-> {},
    important    |-> {},
    priority     |-> [a |-> "optional", k |-> "optional", l |-> "optional"],
    autoflag     |-> {"k", "l"},
    selected     |-> [a |-> "Install", k |-> "Install", l |-> "Install"],
    deps         |-> << Dep("a", 1, "Depends", "k", "any", NoVer),
                        Dep("a", 1, "Depends", "l", "any", NoVer),
                        Dep("l", 1, "Breaks", "k", "any", NoVer) >>,
    notautomatic |-> {},
    provides     |-> << >> ]

Pkgs == Range(cache.order)

VersionList(p) == cache.versions[p]
CurrentVer(p) == cache.current[p]
CurrentState(p) == cache.currentstate[p]
Downloadable(p, v) == <<p, v>> \in cache.downloadable
Priority(p) == cache.priority[p]
\* pkg->SelectedState: dpkg's selection as the cache was built
SelectedState(p) == cache.selected[p]

\* ver.DependsList()
DependsList(p, v) == SelectSeq(cache.deps, LAMBDA d : d.pkg = p /\ d.ver = v)
\* pkg.RevDependsList(): the dependencies of any version of any package
\* that target pkg
RevDependsList(p) == SelectSeq(cache.deps, LAMBDA d : d.target = p)
\* pkg.ProvidesList(): the provides records naming the (virtual) package pkg
ProvidesList(p) == SelectSeq(cache.provides, LAMBDA r : r.name = p)
\* ver.ProvidesList(): what a version provides
VerProvidesList(p, v) ==
  SelectSeq(cache.provides, LAMBDA r : r.owner = p /\ r.over = v)

\* _system->VS->CheckDep(version, op, target version)
CheckDep(v, op, tv) ==
  \/ op = "any"
  \/ v # NoVer /\ op = "=" /\ v = tv
  \/ v # NoVer /\ op = ">=" /\ v >= tv
  \/ v # NoVer /\ op = "<<" /\ v < tv

\* apt.h: is_installed, is_virtual, is_auto_installed
is_installed(p) == CurrentState(p) \notin {"NotInstalled", "ConfigFiles"}
is_virtual(p) == VersionList(p) = {}
is_auto_installed(P, p) == P[p].Auto

\* pkgCache::PkgIterator::Purge()
PkgPurge(p) ==
  CurrentVer(p) = NoVer /\ CurrentState(p) = "NotInstalled"

(***************************************************************************)
(* libapt-pkg: pkgDepCache's StateCache and the primitives the engine      *)
(* calls.  Mode is one of "Keep", "Install", "Delete"; Auto is Flag::Auto; *)
(* Purge, ReInstall and AutoKept are the iFlags.                           *)
(***************************************************************************)
Modes == {"Keep", "Install", "Delete"}

\* dependency types mark-and-sweep and the unused-removal walk follow
follow_recommends ==
  aptcfg.RecommendsImportant \/ aptcfg.InstallRecommends \/ aptcfg.KeepRecommends
follow_suggests ==
  aptcfg.SuggestsImportant \/ aptcfg.KeepSuggests \/ aptcfg.AptitudeSuggestsImportant

\* pkgDepCache::IsImportantDep
IsImportantDep(d) ==
  \/ d.type \in {"Depends", "PreDepends", "Conflicts", "Breaks", "Obsoletes"}
  \/ d.type = "Recommends" /\ aptcfg.InstallRecommends

\* the version of p that results from the pending actions, as libapt's
\* dependency state sees it: InstallVer
InstVer(P, p) == P[p].InstallVer

\* the targets (package, version) that satisfy a dependency, directly or
\* through a provides
DepTargets(d) ==
  {<<d.target, v>> : v \in {w \in VersionList(d.target) : CheckDep(w, d.op, d.tver)}}
  \cup {<<r.owner, r.over>> :
          r \in {x \in Range(ProvidesList(d.target)) : CheckDep(x.pver, d.op, d.tver)}}

\* StateCache::InstBroken: a Depends/PreDepends of the install version that
\* no install version satisfies, or a Conflicts/Breaks that one does
InstBroken(P, p) ==
  /\ InstVer(P, p) # NoVer
  /\ \E d \in Range(DependsList(p, InstVer(P, p))) :
       \/ /\ d.type \in {"Depends", "PreDepends"}
          /\ ~ \E t \in DepTargets(d) : InstVer(P, t[1]) = t[2]
       \/ /\ d.type \in {"Conflicts", "Breaks"}
          /\ \E t \in DepTargets(d) : t[1] # p /\ InstVer(P, t[1]) = t[2]

\* pkgDepCache::MarkKeep(Pkg, Soft)
MarkKeep(P, p, Soft) ==
  IF VersionList(p) = {} THEN P
  ELSE IF P[p].Mode = "Keep" THEN [P EXCEPT ![p].AutoKept = Soft]
  ELSE [P EXCEPT ![p].AutoKept = Soft,
                 ![p].Mode = "Keep",
                 ![p].InstallVer = CurrentVer(p)]

\* pkgDepCache::MarkDelete(Pkg, rPurge)
MarkDelete(P, p, rPurge) ==
  IF VersionList(p) = {} THEN P
  ELSE IF /\ (P[p].Mode = "Delete" \/ P[p].InstallVer = NoVer)
          /\ (PkgPurge(p) \/ ~rPurge)
  THEN P
  ELSE [P EXCEPT ![p].AutoKept = FALSE,
                 ![p].Purge = rPurge,
                 ![p].Mode = IF CurrentVer(p) = NoVer /\ (PkgPurge(p) \/ ~rPurge)
                             THEN "Keep" ELSE "Delete",
                 ![p].InstallVer = NoVer]

\* pkgDepCache::MarkInstall(Pkg, AutoInst = false): the candidate version
\* becomes the install version; a candidate that is the current version
\* is kept
MarkInstall(P, p) ==
  IF VersionList(p) = {} \/ P[p].CandidateVer = NoVer THEN P
  ELSE IF /\ ~InstBroken(P, p)
          /\ (P[p].Mode = "Install" \/ P[p].CandidateVer = CurrentVer(p))
  THEN IF P[p].CandidateVer = CurrentVer(p) /\ P[p].InstallVer = NoVer
       THEN MarkKeep(P, p, FALSE)
       ELSE P
  ELSE [P EXCEPT ![p].AutoKept = FALSE,
                 ![p].Mode = IF P[p].CandidateVer = CurrentVer(p)
                             THEN "Keep" ELSE "Install",
                 ![p].InstallVer = P[p].CandidateVer,
                 ![p].Auto = IF CurrentVer(p) = NoVer \/ ~P[p].Marked
                             THEN FALSE ELSE @]

\* pkgDepCache::MarkAuto
MarkAuto(P, p, auto) == [P EXCEPT ![p].Auto = auto]

\* pkgDepCache::SetReInstall
SetReInstall(P, p, to) == [P EXCEPT ![p].ReInstall = to]

\* pkgDepCache::SetCandidateVersion
SetCandidateVersion(P, p, v) ==
  IF P[p].CandidateVer = v THEN P
  ELSE [P EXCEPT ![p].CandidateVer = v,
                 ![p].InstallVer = IF P[p].CandidateVer = P[p].InstallVer
                                      /\ P[p].Mode = "Install"
                                   THEN v ELSE @]

\* pkgDepCache::GetCandidateVersion: the policy's candidate
GetCandidateVersion(p) == cache.policycand[p]

(***************************************************************************)
(* libapt-pkg: mark and sweep.  The roots are the packages that are not    *)
(* automatically installed (or are essential, important or required) and   *)
(* that stay or get installed; Marked is what the roots reach through      *)
(* their important dependencies; Garbage is what is installed or to be     *)
(* installed and not Marked.                                               *)
(***************************************************************************)
RECURSIVE MarkPackage(_, _, _, _)
RECURSIVE MarkTargets(_, _, _)

MarkTargets(marked, P, todo) ==
  IF todo = {} THEN marked
  ELSE LET t == CHOOSE x \in todo : TRUE
       IN MarkTargets(MarkPackage(marked, P, t[1], t[2]), P, todo \ {t})

MarkPackage(marked, P, p, v) ==
  IF p \in marked THEN marked
  ELSE IF /\ ~(v = InstVer(P, p) /\ InstVer(P, p) # NoVer)
          /\ ~(v = CurrentVer(p) /\ InstVer(P, p) = NoVer /\ v # NoVer)
  THEN marked
  ELSE LET followed ==
             {d \in Range(DependsList(p, v)) :
                \/ d.type \in {"Depends", "PreDepends"}
                \/ d.type = "Recommends" /\ follow_recommends
                \/ d.type = "Suggests" /\ follow_suggests}
       IN MarkTargets(marked \cup {p}, P,
                      UNION {DepTargets(d) : d \in followed})

InRootSet(P, p) ==
  \/ ~P[p].Auto
  \/ p \in cache.essential
  \/ p \in cache.important
  \/ CurrentVer(p) # NoVer /\ Priority(p) = "required"

MarkRequired(P) ==
  LET roots ==
        {<<p, CurrentVer(p)>> :
           p \in {q \in Pkgs : InRootSet(P, q) /\ P[q].Mode = "Keep"
                                /\ CurrentVer(q) # NoVer}}
        \cup
        {<<p, InstVer(P, p)>> :
           p \in {q \in Pkgs : InRootSet(P, q) /\ P[q].Mode = "Install"}}
  IN MarkTargets({}, P, roots)

\* pkgDepCache::MarkAndSweep
MarkAndSweep(P) ==
  LET marked == MarkRequired(P)
  IN [p \in Pkgs |->
        [P[p] EXCEPT
           !.Marked = p \in marked,
           !.Garbage =
              /\ ~(CurrentVer(p) # NoVer /\ Priority(p) = "required")
              /\ p \notin marked
              /\ (CurrentVer(p) # NoVer \/ P[p].Mode = "Install")]]

(***************************************************************************)
(* The engine.  The operators below thread a context c through the code    *)
(* of one operation: c.P is PkgState, c.E is package_states, c.B is        *)
(* backup_state, c.gl is group_level, c.items are the items added to the   *)
(* caller's undo_group, and c.obs records what the operation signalled.    *)
(***************************************************************************)
SelectionStates == {"Unknown", "Install", "Hold", "DeInstall", "Purge"}
RemoveReasons == {"manual", "unused", "from_resolver", "libapt"}

\* read_only && !read_only_permission()
Denied == read_only /\ ~permission

\* read_only_fail()
read_only_fail(c) == [c EXCEPT !.obs.denied = TRUE]

\* _error->Error(...)
Error(c, e) == [c EXCEPT !.obs.errors = @ \cup {e}]

\* aptitudeDepCache::set_candidate_version; v = NoVer is the end iterator
set_candidate_version(c, p, v, undo) ==
  IF Denied
  THEN IF c.gl = 0 THEN read_only_fail(c) ELSE c
  ELSE
    LET c1 == [c EXCEPT !.dirty = TRUE] IN
    IF ~(v # NoVer /\ (Downloadable(p, v)
                       \/ (v = CurrentVer(p) /\ CurrentState(p) # "ConfigFiles")))
    THEN c1
    ELSE
      LET set_to_manual ==
            \/ CurrentVer(p) = NoVer /\ c1.P[p].Mode # "Install"
            \/ /\ CurrentVer(p) # NoVer
               /\ c1.P[p].Mode = "Delete"
               /\ c1.E[p].remove_reason = "unused"
          P1 == IF set_to_manual THEN MarkAuto(c1.P, p, FALSE) ELSE c1.P
          prev == P1[p].CandidateVer
          E1 == [c1.E EXCEPT
                   ![p].candver = IF v # GetCandidateVersion(p) THEN v ELSE NoVer,
                   ![p].selection_state = "Install"]
          P2 == SetCandidateVersion(P1, p, v)
      IN IF c1.gl = 0
         THEN [c1 EXCEPT
                 !.P = MarkAndSweep(P2),
                 !.E = E1,
                 !.items = IF undo
                           THEN Append(@, [type |-> "candver_undoer", pkg |-> p,
                                           oldver |-> prev])
                           ELSE @,
                 !.obs.notified = @ + 1]
         ELSE [c1 EXCEPT !.P = P2, !.E = E1]

\* an internal_mark_install that leaves the forbidden version in place
internal_mark_install_keeps_forbidver(c, p, ReInstall) ==
  LET set_to_manual ==
        \/ CurrentVer(p) = NoVer /\ c.P[p].Mode # "Install"
        \/ /\ CurrentVer(p) # NoVer
           /\ c.P[p].Mode = "Delete"
           /\ c.E[p].remove_reason = "unused"
      final_auto == IF set_to_manual THEN FALSE ELSE c.P[p].Auto
      P1 == IF ~ReInstall THEN MarkInstall(c.P, p) ELSE MarkKeep(c.P, p, FALSE)
      P2 == MarkAuto(SetReInstall(P1, p, ReInstall), p, final_auto)
  IN [c EXCEPT
        !.dirty = TRUE,
        !.P = P2,
        !.E = [@ EXCEPT ![p].selection_state = "Install",
                        ![p].reinstall = ReInstall,
                        ![p].previously_auto_package = final_auto]]

\* aptitudeDepCache::internal_mark_install, with AutoInst = false
internal_mark_install(c, p, ReInstall) ==
  LET set_to_manual ==
        \/ CurrentVer(p) = NoVer /\ c.P[p].Mode # "Install"
        \/ /\ CurrentVer(p) # NoVer
           /\ c.P[p].Mode = "Delete"
           /\ c.E[p].remove_reason = "unused"
      previously_auto == c.P[p].Auto
      final_auto == IF set_to_manual THEN FALSE ELSE previously_auto
      P1 == IF ~ReInstall THEN MarkInstall(c.P, p) ELSE MarkKeep(c.P, p, FALSE)
      P2 == MarkAuto(SetReInstall(P1, p, ReInstall), p, final_auto)
  IN [c EXCEPT
        !.dirty = TRUE,
        !.P = P2,
        !.E = [@ EXCEPT ![p].selection_state = "Install",
                        ![p].reinstall = ReInstall,
                        ![p].forbidver = NoVer,
                        ![p].previously_auto_package = final_auto]]

\* an internal_mark_keep that relies on MarkKeep for the Auto flag
internal_mark_keep_auto_not_reapplied(c, p, Automatic, SetHold) ==
  LET c1 == [c EXCEPT !.dirty = TRUE]
      was_garbage_removed ==
        /\ c1.P[p].Mode = "Delete"
        /\ CurrentVer(p) # NoVer
        /\ c1.E[p].remove_reason = "unused"
      c2 == IF was_garbage_removed
            THEN [c1 EXCEPT !.P = MarkAuto(@, p, FALSE)] ELSE c1
      c3 == set_candidate_version(c2, p, GetCandidateVersion(p), FALSE)
      P1 == SetReInstall(MarkKeep(c3.P, p, FALSE), p, FALSE)
  IN [c3 EXCEPT
        !.P = P1,
        !.E = [@ EXCEPT
                 ![p].reinstall = FALSE,
                 ![p].forbidver = NoVer,
                 ![p].selection_state =
                    IF CurrentVer(p) = NoVer
                    THEN IF P1[p].Purge THEN "Purge" ELSE "DeInstall"
                    ELSE IF SetHold THEN "Hold" ELSE "Install"]]

\* aptitudeDepCache::internal_mark_keep
internal_mark_keep(c, p, Automatic, SetHold) ==
  LET c1 == [c EXCEPT !.dirty = TRUE]
      was_garbage_removed ==
        /\ c1.P[p].Mode = "Delete"
        /\ CurrentVer(p) # NoVer
        /\ c1.E[p].remove_reason = "unused"
      c2 == IF was_garbage_removed
            THEN [c1 EXCEPT !.P = MarkAuto(@, p, FALSE)] ELSE c1
      c3 == set_candidate_version(c2, p, GetCandidateVersion(p), FALSE)
      P1 == MarkAuto(SetReInstall(MarkKeep(c3.P, p, FALSE), p, FALSE), p, Automatic)
  IN [c3 EXCEPT
        !.P = P1,
        !.E = [@ EXCEPT
                 ![p].reinstall = FALSE,
                 ![p].forbidver = NoVer,
                 ![p].selection_state =
                    IF CurrentVer(p) = NoVer
                    THEN IF P1[p].Purge THEN "Purge" ELSE "DeInstall"
                    ELSE IF SetHold THEN "Hold" ELSE "Install"]]

\* the dependency types the unused-removal walk considers
keep_recommends_installed ==
  aptcfg.InstallRecommends \/ aptcfg.RecommendsImportant \/ aptcfg.KeepRecommends
keep_suggests_installed ==
  aptcfg.SuggestsImportant \/ aptcfg.KeepSuggests

ConsideredType_unless_kept(t) ==
  \/ t \in {"Depends", "PreDepends"}
  \/ t = "Recommends" /\ ~keep_recommends_installed
  \/ t = "Suggests" /\ ~keep_suggests_installed

ConsideredType(t) ==
  \/ t \in {"Depends", "PreDepends"}
  \/ t = "Recommends" /\ keep_recommends_installed
  \/ t = "Suggests" /\ keep_suggests_installed

\* pkgCache::VerIterator::Automatic(): the version has a source that is
\* not flagged NotAutomatic
VerAutomatic(p, v) == <<p, v>> \notin cache.notautomatic

\* apt.cc: can_remove_autoinstalled
can_remove_autoinstalled(P, p) ==
  IF ~is_virtual(p) /\ VersionList(p) # {} /\ CurrentVer(p) = NoVer THEN FALSE
  ELSE IF ~is_virtual(p) /\ CurrentVer(p) # NoVer /\ ~VerAutomatic(p, CurrentVer(p))
  THEN FALSE
  ELSE ~ \E rev_dep \in Range(RevDependsList(p)) :
            /\ ConsideredType(rev_dep.type)
            /\ \/ is_installed(rev_dep.pkg) /\ P[rev_dep.pkg].Mode # "Delete"
               \/ P[rev_dep.pkg].Mode = "Install"

\* aptitudeDepCache::internal_mark_delete with its visited list, c.visited
RECURSIVE internal_mark_delete(_, _, _, _)
RECURSIVE cascade_deps(_, _, _)
RECURSIVE cascade_providers(_, _, _, _)

\* c.obs.offered records each package the loops below hand to
\* internal_mark_delete, with its Auto flag and every package's mode as
\* they were at that moment
Offer(c, pkg, via, dep) ==
  LET cc == c
      marks == cc.P
  IN [cc EXCEPT !.obs.offered =
                   @ \cup {[pkg |-> pkg, via |-> via, clause |-> dep,
                            top |-> Len(cc.obs.tops),
                            Auto |-> marks[pkg].Auto,
                            Mode |-> [q \in Pkgs |-> marks[q].Mode]]}]

\* c.obs.walked records each dependency clause that passes the loop's
\* filter on the dependency type
Walk(c, dep) ==
  LET cc == c IN [cc EXCEPT !.obs.walked = @ \cup {dep}]

\* the loop over the providers of the virtual target of the clause dep
cascade_providers(c, dep, prvs, i) ==
  IF i > Len(prvs) THEN c
  ELSE LET owner == prvs[i].owner
           dep_pkg == dep.target
       IN
       IF ~can_remove_autoinstalled(c.P, dep_pkg)
       THEN cascade_providers(c, dep, prvs, i + 1)
       ELSE IF \/ ~is_auto_installed(c.P, owner)
               \/ ~can_remove_autoinstalled(c.P, owner)
       THEN cascade_providers(c, dep, prvs, i + 1)
       ELSE cascade_providers(
              internal_mark_delete(Offer(c, owner, "provider", dep), owner,
                                   aptcfg.PurgeUnused, TRUE),
              dep, prvs, i + 1)

\* the loop over the dependencies of the removed package's current version
cascade_deps(c, deps, i) ==
  IF i > Len(deps) THEN c
  ELSE LET dep == deps[i]
           dep_pkg == dep.target
           is_not_required ==
             ~ \/ dep_pkg \in cache.essential
               \/ dep_pkg \in cache.important
               \/ Priority(dep_pkg) = "important"
               \/ Priority(dep_pkg) = "required"
       IN
       IF ~ConsideredType(dep.type) THEN cascade_deps(c, deps, i + 1)
       ELSE IF is_virtual(dep_pkg)
       THEN cascade_deps(cascade_providers(Walk(c, dep), dep,
                                           ProvidesList(dep_pkg), 1),
                         deps, i + 1)
       ELSE IF CurrentVer(dep_pkg) = NoVer
       THEN cascade_deps(Walk(c, dep), deps, i + 1)
       ELSE IF /\ is_installed(dep_pkg)
               /\ is_auto_installed(c.P, dep_pkg)
               /\ is_not_required
               /\ can_remove_autoinstalled(c.P, dep_pkg)
       THEN cascade_deps(
              internal_mark_delete(Offer(Walk(c, dep), dep_pkg, "direct", dep),
                                   dep_pkg, aptcfg.PurgeUnused, TRUE),
              deps, i + 1)
       ELSE cascade_deps(Walk(c, dep), deps, i + 1)

internal_mark_delete(c, p, Purge0, unused_delete) ==
  IF is_installed(p) /\ p = "aptitude"
  THEN Error(c, "Cannot remove aptitude within aptitude")
  ELSE
    LET Purge == Purge0 \/ (unused_delete /\ aptcfg.PurgeUnused)
        previously_to_delete == c.P[p].Mode = "Delete"
        c1 == [c EXCEPT
                 !.dirty = TRUE,
                 !.P = SetReInstall(MarkDelete(@, p, Purge), p, FALSE),
                 !.E = [@ EXCEPT
                          ![p].selection_state =
                             IF Purge THEN "Purge" ELSE "DeInstall",
                          ![p].reinstall = FALSE,
                          ![p].remove_reason =
                             IF previously_to_delete THEN @
                             ELSE IF unused_delete THEN "unused" ELSE "manual"]]
    IN IF ~aptcfg.DeleteUnused THEN c1
       ELSE IF CurrentVer(p) = NoVer THEN c1
       ELSE IF p \in c1.visited THEN c1
       ELSE cascade_deps(
              [c1 EXCEPT !.visited = @ \cup {p},
                         !.obs.descents =
                            Append(@, [top |-> Len(c1.obs.tops), pkg |-> p])],
              DependsList(p, CurrentVer(p)), 1)

\* c.obs.tops lists the targets of the three-argument calls of one
\* operation, c.obs.descents the packages whose dependencies were walked,
\* each with the number of the three-argument call it was walked in
internal_mark_delete_top_stale_list(c, p, Purge, unused_delete) ==
  LET cc == c IN
  [internal_mark_delete([cc EXCEPT !.visited = {q \in Pkgs : cc.P[q].Mode = "Delete"},
                                   !.obs.tops = Append(@, p)],
                        p, Purge, unused_delete)
     EXCEPT !.visited = {}]

\* the three-argument internal_mark_delete: a fresh visited list per call
internal_mark_delete_top(c, p, Purge, unused_delete) ==
  LET cc == c IN
  [internal_mark_delete([cc EXCEPT !.visited = {},
                                   !.obs.tops = Append(@, p)],
                        p, Purge, unused_delete)
     EXCEPT !.visited = {}]

(***************************************************************************)
(* apt.cc: the conflict oracle.                                            *)
(***************************************************************************)
\* apt.cc: install_version
install_version(P, p) ==
  IF VersionList(p) = {} THEN NoVer
  ELSE IF P[p].Mode = "Delete" THEN NoVer
  ELSE IF P[p].Mode = "Install" THEN InstVer(P, p)
  ELSE IF CurrentState(p) \in {"NotInstalled", "ConfigFiles"} THEN NoVer
  ELSE CurrentVer(p)

RECURSIVE Flatten(_)
Flatten(ss) == IF ss = << >> THEN << >> ELSE Head(ss) \o Flatten(Tail(ss))

NoDep == [type |-> "none"]
IsConflictType(t) == t \in {"Conflicts", "Breaks"}

is_conflicted_with_itself(P, p, v) ==
  IF v = NoVer THEN NoDep
  ELSE
    LET forward ==
          SelectSeq(DependsList(p, v), LAMBDA dep :
            /\ IsConflictType(dep.type)
            /\ \/ /\ install_version(P, dep.target) # NoVer
                  /\ CheckDep(install_version(P, dep.target), dep.op, dep.tver)
               \/ \E prv \in Range(ProvidesList(dep.target)) :
                    /\ install_version(P, prv.owner) = prv.over
                    /\ CheckDep(prv.pver, dep.op, dep.tver))
        reverse ==
          SelectSeq(RevDependsList(p), LAMBDA dep :
            /\ IsConflictType(dep.type)
            /\ install_version(P, dep.pkg) = dep.ver
            /\ CheckDep(v, dep.op, dep.tver))
        prvs == VerProvidesList(p, v)
        indirect ==
          Flatten([i \in DOMAIN prvs |->
            SelectSeq(RevDependsList(prvs[i].name), LAMBDA dep :
              /\ IsConflictType(dep.type)
              /\ install_version(P, dep.pkg) = dep.ver
              /\ CheckDep(prvs[i].pver, dep.op, dep.tver))])
        found == forward \o reverse \o indirect
    IN IF found = << >> THEN NoDep ELSE Head(found)

\* apt.cc: is_conflicted: the first conflicting dependency found, or NoDep
is_conflicted(P, p, v) ==
  IF v = NoVer THEN NoDep
  ELSE
    LET forward ==
          SelectSeq(DependsList(p, v), LAMBDA dep :
            /\ IsConflictType(dep.type)
            /\ \/ /\ dep.target # p
                  /\ install_version(P, dep.target) # NoVer
                  /\ CheckDep(install_version(P, dep.target), dep.op, dep.tver)
               \/ \E prv \in Range(ProvidesList(dep.target)) :
                    /\ prv.owner # p
                    /\ install_version(P, prv.owner) = prv.over
                    /\ CheckDep(prv.pver, dep.op, dep.tver))
        reverse ==
          SelectSeq(RevDependsList(p), LAMBDA dep :
            /\ IsConflictType(dep.type)
            /\ dep.pkg # p
            /\ install_version(P, dep.pkg) = dep.ver
            /\ CheckDep(v, dep.op, dep.tver))
        prvs == VerProvidesList(p, v)
        indirect ==
          Flatten([i \in DOMAIN prvs |->
            SelectSeq(RevDependsList(prvs[i].name), LAMBDA dep :
              /\ IsConflictType(dep.type)
              /\ dep.pkg # p
              /\ install_version(P, dep.pkg) = dep.ver
              /\ CheckDep(prvs[i].pver, dep.op, dep.tver))])
        found == forward \o reverse \o indirect
    IN IF found = << >> THEN NoDep ELSE Head(found)

(***************************************************************************)
(* Helpers of aptitudeDepCache::sweep.                                     *)
(***************************************************************************)
\* the reverse dependencies remove_reverse_current_versions walks: the
\* direct ones with the bad version, then those on each package the bad
\* version provides with the provided version
RevDepsOfVersion(p, v) ==
  LET prvs == VerProvidesList(p, v)
      direct == RevDependsList(p)
  IN [i \in DOMAIN direct |-> [dep |-> direct[i], pv |-> v]]
     \o Flatten([i \in DOMAIN prvs |->
          LET rd == RevDependsList(prvs[i].name)
          IN [j \in DOMAIN rd |-> [dep |-> rd[j], pv |-> prvs[i].pver]]])

RECURSIVE remove_reverse_current_versions(_, _, _)
RECURSIVE remove_reverse_loop(_, _, _, _)

remove_reverse_loop(reinstated, bad_pkg, rds, i) ==
  IF i > Len(rds) THEN reinstated
  ELSE LET dep == rds[i].dep IN
       IF dep.pkg = bad_pkg THEN remove_reverse_loop(reinstated, bad_pkg, rds, i + 1)
       ELSE IF dep.pkg \notin reinstated
       THEN remove_reverse_loop(reinstated, bad_pkg, rds, i + 1)
       ELSE IF /\ dep.type \in {"Depends", "PreDepends"}
               /\ dep.ver = CurrentVer(dep.pkg)
               /\ CheckDep(rds[i].pv, dep.op, dep.tver)
       THEN remove_reverse_loop(
              remove_reverse_current_versions(reinstated \ {dep.pkg},
                                              dep.pkg, dep.ver),
              bad_pkg, rds, i + 1)
       ELSE remove_reverse_loop(reinstated, bad_pkg, rds, i + 1)

\* remove_reverse_current_versions without the indirect reverse
\* dependencies
remove_reverse_direct_only(reinstated, bad_pkg, bad_ver) ==
  LET direct == RevDependsList(bad_pkg)
  IN remove_reverse_loop(reinstated, bad_pkg,
                         [i \in DOMAIN direct |-> [dep |-> direct[i], pv |-> bad_ver]],
                         1)

remove_reverse_current_versions(reinstated, bad_pkg, bad_ver) ==
  remove_reverse_loop(reinstated, bad_pkg, RevDepsOfVersion(bad_pkg, bad_ver), 1)

\* the packages trace_not_orphaned recurses into from one dependency: the
\* installed target if its current version matches, then the owners of the
\* matching provides
TraceTargets(dep) ==
  LET t == dep.target
      prvs == SelectSeq(ProvidesList(t),
                        LAMBDA prv : CheckDep(prv.pver, dep.op, dep.tver))
  IN (IF /\ CurrentState(t) \notin {"NotInstalled", "ConfigFiles"}
         /\ CheckDep(CurrentVer(t), dep.op, dep.tver)
      THEN <<t>> ELSE << >>)
     \o [i \in DOMAIN prvs |-> prvs[i].owner]

RECURSIVE trace_not_orphaned(_, _, _)
RECURSIVE trace_loop(_, _, _, _)

trace_loop(not_orphaned, reinstated, targets, i) ==
  IF i > Len(targets) THEN not_orphaned
  ELSE trace_loop(trace_not_orphaned(not_orphaned, reinstated, targets[i]),
                  reinstated, targets, i + 1)

trace_not_orphaned(not_orphaned, reinstated, notOrphan) ==
  IF notOrphan \in not_orphaned THEN not_orphaned
  ELSE IF \/ CurrentState(notOrphan) \in {"NotInstalled", "ConfigFiles"}
          \/ CurrentVer(notOrphan) = NoVer
  THEN not_orphaned
  ELSE IF notOrphan \notin reinstated THEN not_orphaned
  ELSE LET deps == SelectSeq(DependsList(notOrphan, CurrentVer(notOrphan)),
                             IsImportantDep)
       IN trace_loop(not_orphaned \cup {notOrphan}, reinstated,
                     Flatten([i \in DOMAIN deps |-> TraceTargets(deps[i])]), 1)

\* a package that is installed or to be installed
RemainsInstalled(P, p) ==
  P[p].Mode = "Install" \/ (is_installed(p) /\ P[p].Mode # "Delete")

\* find_not_orphaned looking only at the direct reverse dependencies, not
\* at those on the packages the current version provides
find_not_orphaned_direct_only(not_orphaned, reinstated, P, maybeOrphan) ==
  IF \/ CurrentState(maybeOrphan) \in {"NotInstalled", "ConfigFiles"}
     \/ CurrentVer(maybeOrphan) = NoVer
  THEN not_orphaned
  ELSE
    LET needed ==
          \E d \in Range(RevDependsList(maybeOrphan)) :
            /\ d.pkg # maybeOrphan
            /\ d.type \in {"Depends", "PreDepends"}
            /\ RemainsInstalled(P, d.pkg)
            /\ CheckDep(CurrentVer(maybeOrphan), d.op, d.tver)
    IN IF needed
       THEN trace_not_orphaned(not_orphaned, reinstated, maybeOrphan)
       ELSE not_orphaned

find_not_orphaned(not_orphaned, reinstated, P, maybeOrphan) ==
  IF \/ CurrentState(maybeOrphan) \in {"NotInstalled", "ConfigFiles"}
     \/ CurrentVer(maybeOrphan) = NoVer
  THEN not_orphaned
  ELSE
    LET needed ==
          \E rd \in Range(RevDepsOfVersion(maybeOrphan, CurrentVer(maybeOrphan))) :
            /\ rd.dep.pkg # maybeOrphan
            /\ rd.dep.type \in {"Depends", "PreDepends"}
            /\ RemainsInstalled(P, rd.dep.pkg)
            /\ CheckDep(rd.pv, rd.dep.op, rd.dep.tver)
    IN IF needed
       THEN trace_not_orphaned(not_orphaned, reinstated, maybeOrphan)
       ELSE not_orphaned

(***************************************************************************)
(* aptitudeDepCache::sweep.                                                *)
(***************************************************************************)
\* the first loop of sweep, over the packages in cache order; w carries
\* PkgState, package_states and the sets reinstated and reinstated_bad
RECURSIVE sweep_classify(_, _)
sweep_classify(w, i) ==
  IF i > Len(cache.order) THEN w
  ELSE
    LET pkg == cache.order[i]
        purge_unused == aptcfg.PurgeUnused
    IN
    IF w.P[pkg].Garbage
    THEN IF CurrentVer(pkg) # NoVer /\ CurrentState(pkg) # "ConfigFiles"
         THEN IF w.P[pkg].Mode # "Delete"
              THEN sweep_classify(
                     [w EXCEPT
                        !.P = MarkDelete(@, pkg, purge_unused),
                        !.E = [@ EXCEPT
                                 ![pkg].selection_state =
                                    IF purge_unused THEN "Purge" ELSE "DeInstall",
                                 ![pkg].remove_reason = "unused"]],
                     i + 1)
              ELSE sweep_classify(w, i + 1)
         ELSE sweep_classify(
                [w EXCEPT
                   !.E = [@ EXCEPT
                            ![pkg].selection_state =
                               IF CurrentVer(pkg) = NoVer
                               THEN IF w.P[pkg].Purge THEN "Purge" ELSE "DeInstall"
                               ELSE "Install"],
                   !.P = MarkKeep(@, pkg, FALSE)],
                i + 1)
    ELSE IF w.P[pkg].Mode = "Delete" /\ w.E[pkg].remove_reason = "unused"
    THEN IF is_conflicted(w.P, pkg, CurrentVer(pkg)) # NoDep
         THEN sweep_classify([w EXCEPT !.reinstated_bad = @ \cup {pkg}], i + 1)
         ELSE sweep_classify([w EXCEPT !.reinstated = @ \cup {pkg},
                                       !.candidates = @ \cup {pkg}], i + 1)
    ELSE sweep_classify(w, i + 1)

\* the packages of a set in cache order
InOrder(S) == SelectSeq(cache.order, LAMBDA p : p \in S)

RECURSIVE sweep_remove_bad(_, _, _)
sweep_remove_bad(reinstated, bad, i) ==
  IF i > Len(bad) THEN reinstated
  ELSE sweep_remove_bad(
         remove_reverse_current_versions(reinstated, bad[i], CurrentVer(bad[i])),
         bad, i + 1)

RECURSIVE sweep_find_not_orphaned(_, _, _, _, _)
sweep_find_not_orphaned(not_orphaned, reinstated, P, cands, i) ==
  IF i > Len(cands) THEN not_orphaned
  ELSE sweep_find_not_orphaned(
         find_not_orphaned(not_orphaned, reinstated, P, cands[i]),
         reinstated, P, cands, i + 1)

RECURSIVE sweep_reinstate(_, _, _)
sweep_reinstate(P, pkgs, i) ==
  IF i > Len(pkgs) THEN P
  ELSE sweep_reinstate(MarkKeep(P, pkgs[i], FALSE), pkgs, i + 1)

\* the second loop of sweep: the candidates that depend on a blocked one
\* leave reinstated
sweep_unblocked(w) ==
  [w EXCEPT !.reinstated = sweep_remove_bad(@, InOrder(w.reinstated_bad), 1)]

sweep_not_orphaned_with_blocked(w) ==
  [w EXCEPT !.not_orphaned = w.reinstated \cup w.reinstated_bad]

\* the third loop of sweep: the candidates that are not orphaned
sweep_not_orphaned(w) ==
  [w EXCEPT !.not_orphaned =
              sweep_find_not_orphaned({}, w.reinstated, w.P, InOrder(w.reinstated), 1)]

\* the sets sweep computes from the state at its start; candidates is
\* reinstated as the first loop leaves it
SweepSets(P, E) ==
  sweep_not_orphaned(
    sweep_unblocked(
      sweep_classify([P |-> P, E |-> E, reinstated |-> {}, reinstated_bad |-> {},
                      candidates |-> {}, not_orphaned |-> {}], 1)))

sweep_finish_marks_only(c, s) ==
  [c EXCEPT
     !.P = MarkAndSweep(sweep_reinstate(s.P, InOrder(s.not_orphaned), 1)),
     !.obs.swept = @ + 1,
     !.obs.sweep_pre = [P |-> c.P, E |-> c.E],
     !.obs.sweep_sets = [candidates |-> s.candidates,
                         blocked |-> s.reinstated_bad,
                         not_orphaned |-> s.not_orphaned]]

\* the last loop of sweep, and libapt's mark and sweep when sweep's
\* pkgDepCache::ActionGroup is released
sweep_finish(c, s) ==
  [c EXCEPT
     !.P = MarkAndSweep(sweep_reinstate(s.P, InOrder(s.not_orphaned), 1)),
     !.E = s.E,
     !.obs.swept = @ + 1,
     !.obs.sweep_pre = [P |-> c.P, E |-> c.E],
     !.obs.sweep_sets = [candidates |-> s.candidates,
                         blocked |-> s.reinstated_bad,
                         not_orphaned |-> s.not_orphaned]]

\* aptitudeDepCache::sweep
sweep(c) ==
  IF ~aptcfg.DeleteUnused THEN c
  ELSE sweep_finish(c, SweepSets(c.P, c.E))

(***************************************************************************)
(* The snapshot, the undo records and the commit.                          *)
(***************************************************************************)
\* aptitudeDepCache::duplicate_cache(&backup_state)
duplicate_cache(c) ==
  [c EXCEPT !.B = [P |-> c.P, E |-> c.E], !.obs.snapshots = @ + 1]

\* aptitudeDepCache::state_restorer: an apt_undoer
state_restorer(pkg, state, ext_state) ==
  [type |-> "apt_undoer",
   pkg |-> pkg,
   prev_mode |-> state.Mode,
   prev_auto |-> state.Auto,
   prev_purge |-> state.Purge,
   prev_reinstall |-> state.ReInstall,
   prev_autokept |-> state.AutoKept,
   prev_removereason |-> ext_state.remove_reason,
   prev_selection_state |-> ext_state.selection_state,
   prev_forbidver |-> ext_state.forbidver]

\* the first comparison without the forbidden version
PrimaryChange_no_forbidver(P, E, B, pkg) ==
  \/ P[pkg].Mode # B.P[pkg].Mode
  \/ P[pkg].Auto # B.P[pkg].Auto
  \/ E[pkg].selection_state # B.E[pkg].selection_state
  \/ E[pkg].reinstall # B.E[pkg].reinstall
  \/ E[pkg].remove_reason # B.E[pkg].remove_reason

\* the first comparison of cleanup_after_change
PrimaryChange(P, E, B, pkg) ==
  \/ P[pkg].Mode # B.P[pkg].Mode
  \/ P[pkg].Auto # B.P[pkg].Auto
  \/ E[pkg].selection_state # B.E[pkg].selection_state
  \/ E[pkg].reinstall # B.E[pkg].reinstall
  \/ E[pkg].remove_reason # B.E[pkg].remove_reason
  \/ E[pkg].forbidver # B.E[pkg].forbidver

\* the second comparison of cleanup_after_change; DepState is the
\* package's dependency state, of which the model has the broken bit
CosmeticChange(P, E, B, pkg) ==
  \/ P[pkg].Auto # B.P[pkg].Auto
  \/ InstBroken(P, pkg) # InstBroken(B.P, pkg)
  \/ P[pkg].CandidateVer # B.P[pkg].CandidateVer
  \/ P[pkg].Marked # B.P[pkg].Marked
  \/ P[pkg].Garbage # B.P[pkg].Garbage
  \/ E[pkg].user_tags # B.E[pkg].user_tags
  \/ E[pkg].new_package # B.E[pkg].new_package

\* the selection state cleanup_after_change gives a package that switched
\* mode without a change of its selection state
StickyState(P, E, pkg) ==
  CASE P[pkg].Mode = "Delete" ->
         [sel |-> "DeInstall",
          rr |-> IF E[pkg].selection_state # "DeInstall" /\ CurrentVer(pkg) # NoVer
                 THEN "libapt" ELSE E[pkg].remove_reason]
    [] P[pkg].Mode = "Keep" ->
         [sel |-> IF CurrentVer(pkg) # NoVer THEN "Install"
                  ELSE IF CurrentState(pkg) = "NotInstalled" THEN "Purge"
                  ELSE "DeInstall",
          rr |-> E[pkg].remove_reason]
    [] P[pkg].Mode = "Install" ->
         [sel |-> "Install", rr |-> E[pkg].remove_reason]

\* aptitudeDepCache::cleanup_after_change, with alter_stickies = true
cleanup_after_change(c, undo) ==
  LET primary == {pkg \in Pkgs : PrimaryChange(c.P, c.E, c.B, pkg)}
      cosmetic == {pkg \in Pkgs \ primary : CosmeticChange(c.P, c.E, c.B, pkg)}
      sticky == {pkg \in primary :
                   /\ c.P[pkg].Mode # c.B.P[pkg].Mode
                   /\ c.E[pkg].selection_state = c.B.E[pkg].selection_state}
      changed_seq == InOrder(primary)
  IN [c EXCEPT
        !.E = [pkg \in Pkgs |->
                 IF pkg \in sticky
                 THEN [c.E[pkg] EXCEPT
                         !.selection_state = StickyState(c.P, c.E, pkg).sel,
                         !.remove_reason = StickyState(c.P, c.E, pkg).rr]
                 ELSE c.E[pkg]],
        !.items = IF undo
                  THEN @ \o [i \in DOMAIN changed_seq |->
                               state_restorer(changed_seq[i],
                                              c.B.P[changed_seq[i]],
                                              c.B.E[changed_seq[i]])]
                  ELSE @,
        !.obs.commits = @ + 1,
        !.obs.changed = primary \cup cosmetic,
        !.obs.commit_pre = [P |-> c.P, E |-> c.E, B |-> c.B]]

\* aptitudeDepCache::begin_action_group
begin_action_group(c) == [c EXCEPT !.gl = @ + 1]

\* end_action_group making the diff before Sweep
end_action_group_diff_first(c, undo) ==
  IF c.gl = 1
  THEN IF Denied
       THEN [c EXCEPT !.gl = @ - 1]
       ELSE [duplicate_cache(sweep(cleanup_after_change(c, undo)))
               EXCEPT !.obs.notified = @ + 1, !.gl = @ - 1]
  ELSE [c EXCEPT !.gl = @ - 1]

\* aptitudeDepCache::end_action_group
end_action_group(c, undo) ==
  IF c.gl = 1
  THEN IF Denied
       THEN [c EXCEPT !.gl = @ - 1]
       ELSE [duplicate_cache(cleanup_after_change(sweep(c), undo))
               EXCEPT !.obs.notified = @ + 1, !.gl = @ - 1]
  ELSE [c EXCEPT !.gl = @ - 1]

\* aptitudeDepCache::action_group: the constructor opens libapt's
\* ActionGroup and the engine's; the destructor releases libapt's first,
\* which runs mark and sweep when it is the outermost one
action_group_open(c) == begin_action_group(c)

action_group_close(c, undo) ==
  end_action_group(
    IF c.gl = 1 THEN [c EXCEPT !.P = MarkAndSweep(@)] ELSE c, undo)

(***************************************************************************)
(* The operations.  Each takes the context at its call and gives the       *)
(* context at its return.                                                  *)
(***************************************************************************)
\* aptitudeDepCache::mark_install, with AutoInst = false
mark_install(c, p, ReInstall, undo) ==
  IF Denied
  THEN IF c.gl = 0 THEN read_only_fail(c) ELSE c
  ELSE action_group_close(
         internal_mark_install(action_group_open(c), p, ReInstall), undo)

\* aptitudeDepCache::mark_delete
mark_delete(c, p, Purge, unused_delete, undo) ==
  IF is_installed(p) /\ p = "aptitude"
  THEN Error(c, "Cannot remove aptitude within aptitude")
  ELSE IF Denied
  THEN IF c.gl = 0 THEN read_only_fail(c) ELSE c
  ELSE action_group_close(
         internal_mark_delete_top(action_group_open(c), p, Purge, unused_delete),
         undo)

\* mark_keep with a guard that lets a call inside an open group through
mark_keep_nested_proceeds(c, p, Automatic, SetHold, undo) ==
  IF Denied /\ c.gl = 0
  THEN read_only_fail(c)
  ELSE action_group_close(
         internal_mark_keep(action_group_open(c), p, Automatic, SetHold), undo)

\* aptitudeDepCache::mark_keep
mark_keep(c, p, Automatic, SetHold, undo) ==
  IF Denied
  THEN IF c.gl = 0 THEN read_only_fail(c) ELSE c
  ELSE action_group_close(
         internal_mark_keep(action_group_open(c), p, Automatic, SetHold), undo)

\* a forbid_upgrade that records the version and leaves the pending install
forbid_upgrade_leaves_install(c, p, verstr, undo) ==
  IF Denied
  THEN IF c.gl = 0 THEN read_only_fail(c) ELSE c
  ELSE IF verstr = c.E[p].forbidver THEN c
  ELSE action_group_close(
         [action_group_open(c) EXCEPT
            !.dirty = TRUE,
            !.E = [@ EXCEPT ![p].forbidver = verstr]],
         undo)

\* aptitudeDepCache::forbid_upgrade
forbid_upgrade(c, p, verstr, undo) ==
  IF Denied
  THEN IF c.gl = 0 THEN read_only_fail(c) ELSE c
  ELSE IF verstr = c.E[p].forbidver THEN c
  ELSE LET c1 == action_group_open(c)
           candver == c1.P[p].CandidateVer
           c2 == [c1 EXCEPT
                    !.dirty = TRUE,
                    !.E = [@ EXCEPT ![p].forbidver = verstr],
                    !.P = IF candver # NoVer /\ candver = verstr
                             /\ c1.P[p].Mode = "Install"
                          THEN MarkKeep(@, p, FALSE) ELSE @]
       IN action_group_close(c2, undo)

\* aptitudeDepCache::mark_auto_installed
mark_auto_installed(c, p, set_auto, undo) ==
  IF Denied
  THEN IF c.gl = 0 THEN read_only_fail(c) ELSE c
  ELSE IF set_auto = is_auto_installed(c.P, p) THEN c
  ELSE action_group_close(
         [action_group_open(c) EXCEPT !.dirty = TRUE,
                                      !.P = MarkAuto(@, p, set_auto)],
         undo)

\* user_tag_collection::check_valid: the tags of the model are valid but
\* for the empty one
ValidTag(tag) == tag # ""

\* an attach_user_tag that reports a tag already present as a failure
attach_user_tag_rejects_present(c, p, tag, undo) ==
  IF Denied
  THEN [(IF c.gl = 0 THEN read_only_fail(c) ELSE c) EXCEPT !.obs.result = FALSE]
  ELSE IF ~ValidTag(tag) THEN [c EXCEPT !.obs.result = FALSE]
  ELSE LET c1 == [c EXCEPT !.known_tags = @ \cup {tag}] IN
       IF tag \in c1.E[p].user_tags
       THEN [Error(c1, "Could not add user-tag") EXCEPT !.obs.result = FALSE]
       ELSE [c1 EXCEPT
               !.E = [@ EXCEPT ![p].user_tags = @ \cup {tag}],
               !.dirty = TRUE,
               !.items = IF undo
                         THEN Append(@, [type |-> "attach_user_tag_undoer",
                                         pkg |-> p, tag |-> tag])
                         ELSE @,
               !.obs.result = TRUE]

\* aptitudeDepCache::attach_user_tag; c.obs.result is the value returned
attach_user_tag(c, p, tag, undo) ==
  IF Denied
  THEN [(IF c.gl = 0 THEN read_only_fail(c) ELSE c) EXCEPT !.obs.result = FALSE]
  ELSE IF ~ValidTag(tag) THEN [c EXCEPT !.obs.result = FALSE]
  ELSE LET c1 == [c EXCEPT !.known_tags = @ \cup {tag}] IN
       IF tag \in c1.E[p].user_tags
       THEN [c1 EXCEPT !.obs.result = TRUE,
                       !.obs.notices = @ \cup {"already present"}]
       ELSE [c1 EXCEPT
               !.E = [@ EXCEPT ![p].user_tags = @ \cup {tag}],
               !.dirty = TRUE,
               !.items = IF undo
                         THEN Append(@, [type |-> "attach_user_tag_undoer",
                                         pkg |-> p, tag |-> tag])
                         ELSE @,
               !.obs.result = TRUE]

\* aptitudeDepCache::detach_user_tag
detach_user_tag(c, p, tag, undo) ==
  IF Denied
  THEN [(IF c.gl = 0 THEN read_only_fail(c) ELSE c) EXCEPT !.obs.result = FALSE]
  ELSE IF ~ValidTag(tag) THEN [c EXCEPT !.obs.result = FALSE]
  ELSE IF tag \notin c.known_tags
  THEN [Error(c, "Could not find valid user-tag") EXCEPT !.obs.result = FALSE]
  ELSE IF tag \in c.E[p].user_tags
  THEN [c EXCEPT
          !.E = [@ EXCEPT ![p].user_tags = @ \ {tag}],
          !.dirty = TRUE,
          !.items = IF undo
                    THEN Append(@, [type |-> "detach_user_tag_undoer",
                                    pkg |-> p, tag |-> tag])
                    ELSE @,
          !.obs.result = TRUE]
  ELSE [Error(c, "Could not remove user-tag") EXCEPT !.obs.result = FALSE]

\* set_new_flag without the read-only guard
set_new_flag_unguarded(c, p, is_new) ==
  IF c.E[p].new_package /\ ~is_new
  THEN [c EXCEPT !.npc = @ - 1, !.E = [@ EXCEPT ![p].new_package = is_new]]
  ELSE IF ~c.E[p].new_package /\ is_new
  THEN [c EXCEPT !.npc = @ + 1, !.E = [@ EXCEPT ![p].new_package = is_new]]
  ELSE c

\* aptitudeDepCache::set_new_flag
set_new_flag(c, p, is_new) ==
  IF Denied
  THEN IF c.gl = 0 THEN read_only_fail(c) ELSE c
  ELSE IF c.E[p].new_package /\ ~is_new
  THEN [c EXCEPT !.npc = @ - 1, !.E = [@ EXCEPT ![p].new_package = is_new]]
  ELSE IF ~c.E[p].new_package /\ is_new
  THEN [c EXCEPT !.npc = @ + 1, !.E = [@ EXCEPT ![p].new_package = is_new]]
  ELSE c

\* aptitudeDepCache::forget_new(undoer), over all the packages
RECURSIVE forget_loop(_, _)
forget_loop(c, i) ==
  IF i > Len(cache.order) THEN c
  ELSE LET p == cache.order[i] IN
       IF c.E[p].new_package
       THEN forget_loop(
              [c EXCEPT !.npc = IF @ > 0 THEN @ - 1 ELSE @,
                        !.dirty = TRUE,
                        !.E = [@ EXCEPT ![p].new_package = FALSE],
                        !.forgotten = Append(@, p)],
              i + 1)
       ELSE forget_loop(c, i + 1)

forget_new(c, undoer) ==
  IF Denied
  THEN IF c.gl = 0 THEN read_only_fail(c) ELSE c
  ELSE LET c1 == forget_loop([c EXCEPT !.forgotten = << >>], 1)
           c2 == [c1 EXCEPT
                    !.items = IF undoer /\ c1.forgotten # << >>
                              THEN Append(@, [type |-> "forget_undoer",
                                              packages |-> c1.forgotten])
                              ELSE @,
                    !.forgotten = << >>]
       IN duplicate_cache(c2)

\* aptitudeDepCache::apt_undoer::undo
apt_undoer_undo(c, it) ==
  LET c0 == action_group_open(c)
      c1 == IF it.prev_reinstall
            THEN internal_mark_install(c0, it.pkg, TRUE)
            ELSE CASE it.prev_mode = "Delete" ->
                        internal_mark_delete_top(c0, it.pkg, it.prev_purge,
                                                 it.prev_removereason = "unused")
                   [] it.prev_mode = "Keep" ->
                        internal_mark_keep(c0, it.pkg, it.prev_autokept,
                                           it.prev_selection_state = "Hold")
                   [] it.prev_mode = "Install" ->
                        internal_mark_install(c0, it.pkg, FALSE)
      c2 == [c1 EXCEPT
               !.P = MarkAuto(@, it.pkg, it.prev_auto),
               !.E = [@ EXCEPT ![it.pkg].remove_reason = it.prev_removereason,
                               ![it.pkg].forbidver = it.prev_forbidver]]
  IN action_group_close(c2, FALSE)

\* aptitudeDepCache::forget_undoer::undo
RECURSIVE forget_undoer_undo(_, _, _)
forget_undoer_undo(c, packages, i) ==
  IF i > Len(packages) THEN c
  ELSE forget_undoer_undo(set_new_flag(c, packages[i], TRUE), packages, i + 1)

\* aptitudeDepCache::candver_undoer::undo
candver_undoer_undo(c, it) ==
  [set_candidate_version(c, it.pkg, it.oldver, FALSE) EXCEPT !.obs.notified = @ + 1]

\* undoable::undo of one item of the undo group
undo(c, it) ==
  CASE it.type = "apt_undoer" -> apt_undoer_undo(c, it)
    [] it.type = "forget_undoer" -> forget_undoer_undo(c, it.packages, 1)
    [] it.type = "candver_undoer" -> candver_undoer_undo(c, it)
    [] it.type = "attach_user_tag_undoer" -> detach_user_tag(c, it.pkg, it.tag, FALSE)
    [] it.type = "detach_user_tag_undoer" -> attach_user_tag(c, it.pkg, it.tag, FALSE)

(***************************************************************************)
(* The initial state: the store as aptitudeDepCache::build_selection_list  *)
(* leaves it when there is no state journal (the first run): the defaults  *)
(* with no package new, and dirty so that the journal gets created.        *)
(***************************************************************************)
\* pkgDepCache::Init: every package kept, its candidate the policy's
InitialStateCache(ch) ==
  [p \in Range(ch.order) |->
     [Mode |-> "Keep", Auto |-> p \in ch.autoflag, Purge |-> FALSE,
      ReInstall |-> FALSE, AutoKept |-> FALSE,
      CandidateVer |-> ch.policycand[p], InstallVer |-> ch.current[p],
      Marked |-> FALSE, Garbage |-> FALSE]]

\* build_selection_list: the defaults of a package without a journal entry
InitialExtState(ch) ==
  [p \in Range(ch.order) |->
     [selection_state |-> IF ch.current[p] # NoVer THEN "Install" ELSE "DeInstall",
      original_selection_state |-> "Unknown",
      new_package |-> FALSE, reinstall |-> FALSE, remove_reason |-> "manual",
      forbidver |-> NoVer, candver |-> NoVer,
      previously_auto_package |-> FALSE, user_tags |-> {}, upgrade |-> FALSE]]

\* the configurations of the model
Configs ==
  { [DeleteUnused |-> o[1], PurgeUnused |-> o[2],
     InstallRecommends |-> TRUE, RecommendsImportant |-> TRUE,
     KeepRecommends |-> FALSE, SuggestsImportant |-> FALSE,
     KeepSuggests |-> FALSE, AptitudeSuggestsImportant |-> FALSE,
     TrackDselectState |-> TRUE] :
    o \in {<<TRUE, FALSE>>, <<TRUE, TRUE>>, <<FALSE, FALSE>>} }

EmptyObs ==
  [denied |-> FALSE, errors |-> {}, notices |-> {}, result |-> TRUE,
   swept |-> 0, snapshots |-> 0, notified |-> 0, commits |-> 0,
   changed |-> {}, offered |-> {}, walked |-> {},
   tops |-> << >>, descents |-> << >>,
   sweep_pre |-> [P |-> << >>, E |-> << >>],
   sweep_sets |-> [candidates |-> {}, blocked |-> {}, not_orphaned |-> {}],
   commit_pre |-> [P |-> << >>, E |-> << >>, B |-> [P |-> << >>, E |-> << >>]]]

NoArgs == [pkg |-> "", b1 |-> FALSE, b2 |-> FALSE, ver |-> NoVer, undo |-> FALSE]

\* a path without a file (ENOENT), and a file of journal sections; a
\* corrupt file gives the parser its sections and then fails
NoFile == [exists |-> FALSE, sections |-> << >>, corrupt |-> FALSE]
File(sections) == [exists |-> TRUE, sections |-> sections, corrupt |-> FALSE]

\* the files of a system that has no journal yet: statefile is pkgstates,
\* status_fname an alternate journal; apt's extended_states holds the
\* automatically installed packages and dpkg's database the selections
\* the cache was built from
InitialFiles(ch) ==
  [statefile |-> NoFile, statefile_new |-> NoFile, statefile_old |-> NoFile,
   status_fname |-> NoFile, extended_states |-> ch.autoflag,
   selections |-> ch.selected]

\* no save_selection_list is running
NotSaving ==
  [pc |-> "idle", alt |-> FALSE, prev |-> NoFile, buffer |-> << >>,
   selections |-> {}, result |-> "none"]

\* apt_load_cache has returned: the cache file is open, the resolver
\* manager exists and its thread waits for work; no installer has run
CacheLoaded ==
  [pc |-> "main", cache_file |-> TRUE, resman |-> TRUE, reader |-> "waiting",
   then |-> "return", rval |-> "none", joined |-> FALSE, errors |-> {}]

InitWith(ch) ==
  /\ cache = ch
  /\ files = InitialFiles(ch)
  /\ saving = NotSaving
  /\ apt = CacheLoaded
  /\ aptcfg \in Configs
  /\ read_only \in BOOLEAN
  /\ lock = IF read_only THEN -1 ELSE LockFd
  /\ system_lock = [have |-> TRUE, rivals |-> "none"]
  /\ permission = FALSE
  /\ group_level = 0
  \* the journal does not exist: build_selection_list sets dirty
  /\ dirty = TRUE
  /\ undo_items = << >>
  /\ new_package_count = 0
  /\ user_tags = {}
  /\ nops = 0
  /\ package_states = InitialExtState(ch)
  \* the action_group of build_selection_list runs mark and sweep
  /\ PkgState = MarkAndSweep(InitialStateCache(ch))
  /\ backup_state = [P |-> PkgState, E |-> package_states]
  /\ last = [op |-> "load", args |-> NoArgs,
             pre |-> [P |-> PkgState, E |-> package_states, B |-> backup_state,
                      dirty |-> TRUE, gl |-> 0, npc |-> 0, tags |-> {},
                      items |-> << >>, denied |-> FALSE],
             obs |-> EmptyObs, made |-> FALSE, prev_made |-> FALSE]

Init == InitWith(CoreCache)

(***************************************************************************)
(* The actions: one per operation of the engine.                           *)
(***************************************************************************)
\* the context at the call of an operation
Ctx ==
  [P |-> PkgState, E |-> package_states, B |-> backup_state, dirty |-> dirty,
   gl |-> group_level, npc |-> new_package_count, known_tags |-> user_tags,
   items |-> << >>, visited |-> {}, forgotten |-> << >>, obs |-> EmptyObs]

Pre ==
  [P |-> PkgState, E |-> package_states, B |-> backup_state, dirty |-> dirty,
   gl |-> group_level, npc |-> new_package_count, tags |-> user_tags,
   items |-> undo_items, denied |-> Denied]

Args(p, b1, b2, v, u) == [pkg |-> p, b1 |-> b1, b2 |-> b2, ver |-> v, undo |-> u]

\* the state at the return of an operation; the caller's undo group holds
\* the items of the last operation that gave it any
Return(op, args, c) ==
  /\ nops < MaxOps
  /\ saving.pc = "idle"
  /\ nops' = nops + 1
  /\ PkgState' = c.P
  /\ package_states' = c.E
  /\ backup_state' = c.B
  /\ dirty' = c.dirty
  /\ group_level' = c.gl
  /\ new_package_count' = c.npc
  /\ user_tags' = c.known_tags
  /\ undo_items' = IF c.items # << >> THEN c.items ELSE undo_items
  /\ last' = [op |-> op, args |-> args, pre |-> Pre, obs |-> c.obs,
              made |-> c.items # << >>, prev_made |-> last.made]
  /\ apt.pc = "main"
  /\ apt.cache_file
  /\ UNCHANGED <<cache, aptcfg, read_only, lock, permission, files, saving,
                 apt, system_lock>>

\* the version arguments: the end iterator and the versions of the package
VerArgs(p) == {NoVer} \cup VersionList(p)

\* the tags a caller names: a valid one and the empty one
TagArgs == {"", "t"}
\* the packages the caller tags, and those it flags as new
TagPkgs == {"a"}
NewPkgs == {"a", "n"}
\* the operations of the user interface pass the undo group of the command
UndoSinks == {TRUE}
TagNo(tag) == IF tag = "" THEN 0 ELSE 1

OpMarkInstall ==
  \E p \in Pkgs, ReInstall \in BOOLEAN, u \in UndoSinks :
    Return("mark_install", Args(p, ReInstall, FALSE, NoVer, u),
           mark_install(Ctx, p, ReInstall, u))

OpMarkDelete ==
  \E p \in Pkgs, Purge \in BOOLEAN, unused_delete \in BOOLEAN, u \in UndoSinks :
    Return("mark_delete", Args(p, Purge, unused_delete, NoVer, u),
           mark_delete(Ctx, p, Purge, unused_delete, u))

OpMarkKeep ==
  \E p \in Pkgs, Automatic \in BOOLEAN, SetHold \in BOOLEAN, u \in UndoSinks :
    Return("mark_keep", Args(p, Automatic, SetHold, NoVer, u),
           mark_keep(Ctx, p, Automatic, SetHold, u))

OpSetCandidateVersion ==
  \E p \in Pkgs, u \in UndoSinks : \E v \in VerArgs(p) :
    Return("set_candidate_version", Args(p, FALSE, FALSE, v, u),
           set_candidate_version(Ctx, p, v, u))

OpForbidUpgrade ==
  \E p \in Pkgs, u \in UndoSinks : \E v \in VerArgs(p) :
    Return("forbid_upgrade", Args(p, FALSE, FALSE, v, u),
           forbid_upgrade(Ctx, p, v, u))

OpMarkAutoInstalled ==
  \E p \in Pkgs, set_auto \in BOOLEAN, u \in UndoSinks :
    Return("mark_auto_installed", Args(p, set_auto, FALSE, NoVer, u),
           mark_auto_installed(Ctx, p, set_auto, u))

OpAttachUserTag ==
  \E p \in TagPkgs, tag \in TagArgs, u \in UndoSinks :
    Return("attach_user_tag", Args(p, FALSE, FALSE, TagNo(tag), u),
           attach_user_tag(Ctx, p, tag, u))

OpDetachUserTag ==
  \E p \in TagPkgs, tag \in TagArgs, u \in UndoSinks :
    Return("detach_user_tag", Args(p, FALSE, FALSE, TagNo(tag), u),
           detach_user_tag(Ctx, p, tag, u))

OpSetNewFlag ==
  \E p \in NewPkgs, is_new \in BOOLEAN :
    Return("set_new_flag", Args(p, is_new, FALSE, NoVer, FALSE),
           set_new_flag(Ctx, p, is_new))

OpForgetNew ==
  \E u \in UndoSinks :
    Return("forget_new", Args("", FALSE, FALSE, NoVer, u), forget_new(Ctx, u))

\* the caller opens an action_group
OpBegin ==
  /\ group_level < MaxGroupLevel
  /\ Return("begin", NoArgs, action_group_open(Ctx))

\* the caller's action_group goes out of scope
OpEnd ==
  /\ group_level > 0
  /\ \E u \in BOOLEAN :
       Return("end", Args("", FALSE, FALSE, NoVer, u), action_group_close(Ctx, u))

\* the caller undoes one item of its undo group
OpUndo ==
  \E i \in DOMAIN undo_items :
    /\ Return("undo", Args(IF undo_items[i].type = "forget_undoer"
                           THEN "" ELSE undo_items[i].pkg,
                           FALSE, FALSE, i, FALSE),
              undo(Ctx, undo_items[i]))

\* aptitudeDepCache::set_read_only
OpSetReadOnly ==
  /\ nops < MaxOps
  /\ nops' = nops + 1
  /\ read_only' = ~read_only
  /\ last' = [op |-> "set_read_only", args |-> NoArgs, pre |-> Pre, obs |-> EmptyObs,
              made |-> FALSE, prev_made |-> last.made]
  /\ UNCHANGED <<cache, aptcfg, PkgState, package_states, backup_state,
                 group_level, dirty, lock, permission, undo_items,
                 new_package_count, user_tags, files, saving, apt, system_lock>>

\* the user answers the read_only_permission hook's question differently
\* from now on
OpSetPermission ==
  /\ nops < MaxOps
  /\ nops' = nops + 1
  /\ permission' = ~permission
  /\ last' = [op |-> "set_permission", args |-> NoArgs, pre |-> Pre, obs |-> EmptyObs,
              made |-> FALSE, prev_made |-> last.made]
  /\ UNCHANGED <<cache, aptcfg, PkgState, package_states, backup_state,
                 group_level, dirty, read_only, lock, undo_items,
                 new_package_count, user_tags, files, saving, apt, system_lock>>

Next ==
  \/ OpMarkInstall
  \/ OpMarkDelete
  \/ OpMarkKeep
  \/ OpSetCandidateVersion
  \/ OpForbidUpgrade
  \/ OpMarkAutoInstalled
  \/ OpAttachUserTag
  \/ OpDetachUserTag
  \/ OpSetNewFlag
  \/ OpForgetNew
  \/ OpBegin
  \/ OpEnd
  \/ OpUndo
  \/ OpSetReadOnly
  \/ OpSetPermission

Spec == Init /\ [][Next]_vars

(***************************************************************************)
(* The reinstatement universe: the marking operations on a writable store  *)
(* that removes unused packages.                                           *)
(***************************************************************************)
InitSweep == InitWith(SweepCache) /\ ~read_only /\ aptcfg.DeleteUnused

NextSweep ==
  \/ OpMarkInstall
  \/ OpMarkDelete
  \/ OpMarkKeep

SpecSweep == InitSweep /\ [][NextSweep]_vars

(***************************************************************************)
(* The cycle universe: the marking operations on a writable store that     *)
(* removes unused packages.                                                *)
(***************************************************************************)
InitCycle == InitWith(CycleCache) /\ ~read_only /\ aptcfg.DeleteUnused

NextCycle ==
  \/ OpMarkInstall
  \/ OpMarkDelete
  \/ OpMarkKeep
  \/ OpUndo

SpecCycle == InitCycle /\ [][NextCycle]_vars

(***************************************************************************)
(* The provider universe: the marking operations on a writable store that  *)
(* removes unused packages.                                                *)
(***************************************************************************)
InitProvider == InitWith(ProviderCache) /\ ~read_only /\ aptcfg.DeleteUnused

NextProvider ==
  \/ OpMarkInstall
  \/ OpMarkDelete
  \/ OpMarkKeep

SpecProvider == InitProvider /\ [][NextProvider]_vars

(***************************************************************************)
(* The conflict universe: the marking operations on a writable store over  *)
(* packages that conflict directly, by version and through provisions.     *)
(***************************************************************************)
InitConflict == InitWith(ConflictCache) /\ ~read_only

NextConflict ==
  \/ OpMarkInstall
  \/ OpMarkDelete
  \/ OpMarkKeep

SpecConflict == InitConflict /\ [][NextConflict]_vars

(***************************************************************************)
(* The universe with a conflict among installed packages: the marking      *)
(* operations on a writable store that removes unused packages.            *)
(***************************************************************************)
InitMutual == InitWith(MutualCache) /\ ~read_only /\ aptcfg.DeleteUnused

NextMutual ==
  \/ OpMarkInstall
  \/ OpMarkDelete
  \/ OpMarkKeep

SpecMutual == InitMutual /\ [][NextMutual]_vars

(***************************************************************************)
(* The dependency-type universe: the marking operations on a writable      *)
(* store that removes unused packages, under each setting of the options   *)
(* that make Recommends and Suggests count.                                *)
(***************************************************************************)
\* APT::Install-Recommends and APT::AutoRemove::RecommendsImportant on or
\* off together, APT::AutoRemove::SuggestsImportant on or off
PolicyConfigs ==
  { [DeleteUnused |-> TRUE, PurgeUnused |-> FALSE,
     InstallRecommends |-> o[1], RecommendsImportant |-> o[1],
     KeepRecommends |-> FALSE, SuggestsImportant |-> o[2],
     KeepSuggests |-> FALSE, AptitudeSuggestsImportant |-> FALSE,
     TrackDselectState |-> TRUE] :
    o \in BOOLEAN \X BOOLEAN }

InitPolicy ==
  /\ cache = PolicyCache
  /\ files = InitialFiles(PolicyCache)
  /\ saving = NotSaving
  /\ apt = CacheLoaded
  /\ aptcfg \in PolicyConfigs
  /\ read_only = FALSE
  /\ lock = LockFd
  /\ system_lock = [have |-> TRUE, rivals |-> "none"]
  /\ permission = FALSE
  /\ group_level = 0
  /\ dirty = TRUE
  /\ undo_items = << >>
  /\ new_package_count = 0
  /\ user_tags = {}
  /\ nops = 0
  /\ package_states = InitialExtState(PolicyCache)
  /\ PkgState = MarkAndSweep(InitialStateCache(PolicyCache))
  /\ backup_state = [P |-> PkgState, E |-> package_states]
  /\ last = [op |-> "load", args |-> NoArgs,
             pre |-> [P |-> PkgState, E |-> package_states, B |-> backup_state,
                      dirty |-> TRUE, gl |-> 0, npc |-> 0, tags |-> {},
                      items |-> << >>, denied |-> FALSE],
             obs |-> EmptyObs, made |-> FALSE, prev_made |-> FALSE]

NextPolicy ==
  \/ OpMarkInstall
  \/ OpMarkDelete
  \/ OpMarkKeep

SpecPolicy == InitPolicy /\ [][NextPolicy]_vars

(***************************************************************************)
(* The state journal.  A journal is a sequence of sections, one per        *)
(* package with a version; a section is a record of the fields             *)
(* save_selection_list prints.  Integers are printed with %i and read      *)
(* back with FindI, flags are "yes" or absent, a version string that is    *)
(* empty is absent.  The packages of the model have one architecture.      *)
(***************************************************************************)
\* pkgCache::State::PkgSelectedState as "%i" prints it, and the cast of
\* the integer FindI reads
StateNo(s) ==
  CASE s = "Unknown" -> 0 [] s = "Install" -> 1 [] s = "Hold" -> 2
    [] s = "DeInstall" -> 3 [] s = "Purge" -> 4

StateOf(i) ==
  CASE i = 1 -> "Install" [] i = 2 -> "Hold" [] i = 3 -> "DeInstall"
    [] i = 4 -> "Purge" [] OTHER -> "Unknown"

\* changed_reason as "%i" prints it, and the cast of the integer read
ReasonNo(r) ==
  CASE r = "manual" -> 0 [] r = "libapt" -> 2 [] r = "from_resolver" -> 3
    [] r = "unused" -> 4

\* a reader that ignores the Remove-Reason field
ReasonOf_ignored(i) == "manual"
ReasonOf(i) ==
  CASE i = 2 -> "libapt" [] i = 3 -> "from_resolver" [] i = 4 -> "unused"
    [] OTHER -> "manual"

\* get_user_tags: the tags of a package, sorted
RECURSIVE SortedTags(_)
SortedTags(S) ==
  IF S = {} THEN << >>
  ELSE LET t == CHOOSE t \in S : \A u \in S : TagNo(t) <= TagNo(u)
       IN <<t>> \o SortedTags(S \ {t})

\* apt.cc: is_version_available
is_version_available(p, version) ==
  \E vi \in VersionList(p) : version = vi /\ Downloadable(p, vi)

\* the packages save_selection_list writes a section for
Recorded == SelectSeq(cache.order, LAMBDA p : VersionList(p) # {})

\* save_selection_list: the section of one package
journal_section(P, E, p) ==
  [Package |-> p,
   Unseen |-> E[p].new_package,
   State |-> StateNo(E[p].selection_state),
   DselectState |-> StateNo(SelectedState(p)),
   RemoveReason |-> ReasonNo(E[p].remove_reason),
   Upgrade |-> CurrentVer(p) # NoVer /\ P[p].Mode = "Install",
   Reinstall |-> E[p].reinstall,
   AutoNewInstall |-> /\ CurrentVer(p) = NoVer
                      /\ P[p].Mode = "Install"
                      /\ (P[p].Auto \/ E[p].previously_auto_package),
   ForbidVer |-> E[p].forbidver,
   UserTags |-> SortedTags(E[p].user_tags),
   Version |-> IF /\ P[p].Mode = "Install"
                  /\ E[p].candver # NoVer
                  /\ GetCandidateVersion(p) # E[p].candver
               THEN E[p].candver ELSE NoVer]

\* save_selection_list: what the loop puts in newstate_tmpbuffer
journal_buffer(P, E) ==
  [i \in DOMAIN Recorded |-> journal_section(P, E, Recorded[i])]

\* save_selection_list: the packages the loop adds to dpkg_selections
selections_to_save(E) ==
  {p \in Range(Recorded) :
     /\ E[p].original_selection_state # E[p].selection_state
     /\ ~(E[p].original_selection_state = "Unknown"
          /\ E[p].selection_state = "DeInstall")}

\* the loop makes the selection it adds the original one
selections_added(E) ==
  [p \in Pkgs |->
     IF p \in selections_to_save(E)
     THEN [E[p] EXCEPT !.original_selection_state = E[p].selection_state]
     ELSE E[p]]

\* lock != -1
lock_held == lock # -1

\* the file save_selection_list opens, and the journal it is to replace
OpenedPath(alt) == IF alt THEN "status_fname" ELSE "statefile_new"
TargetPath(alt) == IF alt THEN "status_fname" ELSE "statefile"

\* FileFd::Write that fails: some sections were written, the last one
\* possibly cut
PartlyWritten(buffer) ==
  {[exists |-> TRUE, sections |-> SubSeq(buffer, 1, k), corrupt |-> cut] :
     k \in 0..(Len(buffer) - 1), cut \in BOOLEAN}

\* what the steps of save_selection_list leave alone
SaveFrame ==
  UNCHANGED <<cache, aptcfg, PkgState, backup_state, group_level, dirty,
              read_only, lock, permission, undo_items, new_package_count,
              user_tags, apt>>

\* save_selection_list returns
SaveReturns(ok) ==
  /\ saving' = [saving EXCEPT !.pc = "idle",
                              !.result = IF ok THEN "true" ELSE "false"]
  /\ last' = [op |-> "save", args |-> Args("", saving.alt, FALSE, NoVer, FALSE),
              pre |-> Pre, obs |-> [EmptyObs EXCEPT !.result = ok],
              made |-> FALSE, prev_made |-> last.made]

\* save_selection_list up to the open of the new file: nothing to do when
\* not dirty or without the lock unless a file name is given; otherwise
\* apt's own state file is written (for the global journal) and the file
\* is opened with FileFd::WriteEmpty, which truncates it
SaveOpen ==
  /\ nops < MaxOps
  /\ saving.pc = "idle"
  /\ apt.cache_file
  /\ \/ apt.pc = "main"
     \/ apt.pc = "load_save" /\ system_lock.have /\ last.op = "load"
  /\ nops' = nops + 1
  /\ \E alt \in {a \in BOOLEAN : a => apt.pc = "main"} :
       LET called == [NotSaving EXCEPT
                        !.alt = alt,
                        !.prev = files[TargetPath(alt)],
                        !.buffer = journal_buffer(PkgState, package_states)]
           written == IF alt THEN files
                      ELSE [files EXCEPT
                              !.extended_states = {p \in Pkgs : PkgState[p].Auto}]
       IN IF (~dirty \/ ~lock_held) /\ ~alt
          THEN /\ saving' = [called EXCEPT !.result = "true"]
               /\ last' = [op |-> "save", args |-> Args("", alt, FALSE, NoVer, FALSE),
                           pre |-> Pre, obs |-> EmptyObs,
                           made |-> FALSE, prev_made |-> last.made]
               /\ UNCHANGED files
          ELSE \/ /\ files' = [written EXCEPT ![OpenedPath(alt)] = File(<< >>)]
                  /\ saving' = [called EXCEPT !.pc = "opened"]
                  /\ UNCHANGED last
               \/ /\ files' = written
                  /\ saving' = [called EXCEPT !.result = "false"]
                  /\ last' = [op |-> "save",
                              args |-> Args("", alt, FALSE, NoVer, FALSE),
                              pre |-> Pre,
                              obs |-> [EmptyObs EXCEPT
                                         !.result = FALSE,
                                         !.errors = {"Cannot open Aptitude state file"}],
                              made |-> FALSE, prev_made |-> last.made]
  /\ UNCHANGED package_states
  /\ UNCHANGED system_lock
  /\ SaveFrame

\* the loop over the packages and the write of the buffer: the write may
\* fail after a part of it; the global journal's .new is then unlinked
SaveWrite ==
  /\ saving.pc = "opened"
  /\ package_states' = selections_added(package_states)
  /\ \/ /\ files' = [files EXCEPT ![OpenedPath(saving.alt)] = File(saving.buffer)]
        /\ saving' = [saving EXCEPT
                        !.pc = "closed",
                        !.selections = selections_to_save(package_states)]
        /\ UNCHANGED last
     \/ /\ \E part \in PartlyWritten(saving.buffer) :
             files' = [files EXCEPT
                         ![OpenedPath(saving.alt)] =
                            IF saving.alt THEN part ELSE NoFile]
        /\ SaveReturns(FALSE)
  /\ UNCHANGED nops
  /\ UNCHANGED system_lock
  /\ SaveFrame

\* unlink(pkgstates.old); ENOENT is no failure
SaveUnlinkOld ==
  /\ saving.pc = "closed"
  /\ ~saving.alt
  /\ \/ /\ files' = [files EXCEPT !.statefile_old = NoFile]
        /\ saving' = [saving EXCEPT !.pc = "unlinked"]
        /\ UNCHANGED last
     \/ /\ files.statefile_old.exists
        /\ UNCHANGED files
        /\ SaveReturns(FALSE)
  /\ UNCHANGED <<nops, package_states>>
  /\ UNCHANGED system_lock
  /\ SaveFrame

\* link(pkgstates, pkgstates.old); ENOENT is no failure
SaveLinkOld ==
  /\ saving.pc = "unlinked"
  /\ \/ /\ files' = [files EXCEPT !.statefile_old = files.statefile]
        /\ saving' = [saving EXCEPT !.pc = "linked"]
        /\ UNCHANGED last
     \/ /\ files.statefile.exists
        /\ UNCHANGED files
        /\ SaveReturns(FALSE)
  /\ UNCHANGED <<nops, package_states>>
  /\ UNCHANGED system_lock
  /\ SaveFrame

\* rename(pkgstates.new, pkgstates)
SaveRename ==
  /\ saving.pc = "linked"
  /\ \/ /\ files' = [files EXCEPT !.statefile = files.statefile_new,
                                  !.statefile_new = NoFile]
        /\ saving' = [saving EXCEPT !.pc = "renamed"]
        /\ UNCHANGED last
     \/ /\ UNCHANGED files
        /\ SaveReturns(FALSE)
  /\ UNCHANGED <<nops, package_states>>
  /\ UNCHANGED system_lock
  /\ SaveFrame

\* ReleaseLock, dpkg_selections.save_selections(), GainLock and the return:
\* another tool that waits for dpkg's lock may take it while it is released,
\* and the lock is then not regained; the return value is that of
\* save_selections() alone
SaveSelections ==
  /\ \/ saving.pc = "renamed"
     \/ saving.pc = "closed" /\ saving.alt
  /\ \E taken \in {t \in BOOLEAN : t => system_lock.rivals = "waiting"},
        saved \in BOOLEAN :
       LET rivals == IF taken THEN "holding" ELSE system_lock.rivals
           regained == rivals # "holding"
       IN /\ system_lock' = [have |-> regained, rivals |-> rivals]
          /\ files' = IF saved
                       THEN [files EXCEPT
                               !.selections =
                                  [p \in Pkgs |->
                                     IF p \in saving.selections
                                     THEN package_states[p].selection_state
                                     ELSE @[p]]]
                       ELSE files
          /\ saving' = [saving EXCEPT !.pc = "idle",
                                      !.result = IF saved THEN "true" ELSE "false"]
          /\ last' = [op |-> "save",
                      args |-> Args("", saving.alt, FALSE, NoVer, FALSE),
                      pre |-> Pre,
                      obs |-> [EmptyObs EXCEPT
                                 !.result = saved,
                                 !.errors =
                                    IF regained THEN {}
                                    ELSE {"Could not regain the system lock"}],
                      made |-> FALSE, prev_made |-> last.made]
  /\ UNCHANGED <<nops, package_states>>
  /\ SaveFrame

\* the process stops between two steps of save_selection_list
SaveStop ==
  /\ saving.pc \notin {"idle", "stopped"}
  /\ saving' = [saving EXCEPT !.pc = "stopped"]
  /\ UNCHANGED <<files, nops, package_states, last>>
  /\ UNCHANGED system_lock
  /\ SaveFrame

(***************************************************************************)
(* The load: aptitudeDepCache's constructor and build_selection_list, on   *)
(* the cache ch built from dpkg's and apt's databases.  The package lists  *)
(* of ch are those of the running cache; its selections and automatic      *)
(* flags are the ones on disk.                                             *)
(***************************************************************************)
\* new aptitude_state[Head().PackageCount]: an array with the value v for
\* every package
RECURSIVE new_array(_, _, _)
new_array(order, i, v) ==
  IF i = Len(order) THEN order[i] :> v
  ELSE (order[i] :> v) @@ new_array(order, i + 1, v)

\* build_selection_list: the aptitude_state of every package before the
\* journal is read
DefaultExtState ==
  new_array(cache.order, 1,
     [selection_state |-> "Unknown", original_selection_state |-> "Unknown",
      new_package |-> TRUE, reinstall |-> FALSE, remove_reason |-> "manual",
      forbidver |-> NoVer, candver |-> NoVer,
      previously_auto_package |-> FALSE, user_tags |-> {}, upgrade |-> FALSE])

\* the constructor, pkgDepCache::Init, MarkAndSweep, the defaults and the
\* first duplicate_cache, inside the action_group of build_selection_list
load_start(ch) ==
  duplicate_cache(
    [P |-> MarkAndSweep(InitialStateCache(ch)), E |-> DefaultExtState,
     B |-> [P |-> << >>, E |-> << >>], dirty |-> FALSE, gl |-> 1, npc |-> 0,
     known_tags |-> {}, items |-> << >>, visited |-> {}, forgotten |-> << >>,
     obs |-> EmptyObs])

\* aptitudeDepCache::MarkFromDselect
MarkFromDselect(c, ch, p) ==
  LET cc == c IN
  IF Denied
  THEN IF cc.gl = 0 THEN read_only_fail(cc) ELSE cc
  ELSE IF ch.selected[p] = cc.E[p].selection_state
  THEN [cc EXCEPT !.E[p].original_selection_state = ch.selected[p]]
  ELSE
    CASE ch.selected[p] = "Purge" ->
           IF CurrentVer(p) # NoVer \/ ~cc.P[p].Purge
           THEN mark_delete([cc EXCEPT !.E[p].original_selection_state = "Purge"],
                            p, TRUE, FALSE, FALSE)
           ELSE mark_keep([cc EXCEPT !.E[p].original_selection_state = "Purge"],
                          p, FALSE, FALSE, FALSE)
      [] ch.selected[p] \in {"Unknown", "DeInstall"} ->
           IF CurrentVer(p) # NoVer
           THEN mark_delete([cc EXCEPT !.E[p].original_selection_state = ch.selected[p]],
                            p, FALSE, FALSE, FALSE)
           ELSE mark_keep([cc EXCEPT !.E[p].original_selection_state = ch.selected[p]],
                          p, FALSE, FALSE, FALSE)
      [] ch.selected[p] = "Hold" ->
           IF CurrentVer(p) # NoVer
           THEN mark_keep([cc EXCEPT !.E[p].original_selection_state = "Hold"],
                          p, FALSE, TRUE, FALSE)
           ELSE [cc EXCEPT !.E[p].original_selection_state = "Hold"]
      [] ch.selected[p] = "Install" ->
           IF CurrentVer(p) = NoVer
           THEN mark_install([cc EXCEPT !.E[p].original_selection_state = "Install"],
                             p, FALSE, FALSE)
           ELSE mark_keep([cc EXCEPT !.E[p].original_selection_state = "Install"],
                          p, FALSE, FALSE, FALSE)

\* build_selection_list: the fields of a section applied to its package
read_section(c, ch, s, reset_reinstall) ==
  LET cc == c IN
  [cc EXCEPT
     !.E[s.Package] =
        [@ EXCEPT
           !.new_package = s.Unseen,
           !.upgrade = s.Upgrade,
           !.reinstall =
              /\ ~reset_reinstall
              /\ \/ @
                 \/ /\ s.Reinstall
                    /\ CurrentVer(s.Package) # NoVer
                    /\ is_version_available(s.Package, CurrentVer(s.Package)),
           !.previously_auto_package =
              @ \/ s.AutoNewInstall \/ is_auto_installed(cc.P, s.Package),
           !.remove_reason = ReasonOf(s.RemoveReason),
           !.selection_state = StateOf(s.State),
           !.original_selection_state = ch.selected[s.Package],
           !.candver = s.Version,
           !.forbidver = s.ForbidVer,
           !.user_tags = @ \cup Range(s.UserTags)],
     !.known_tags = @ \cup Range(s.UserTags),
     !.dirty =
        \/ @
        \/ /\ reset_reinstall
           /\ \/ cc.E[s.Package].reinstall
              \/ /\ s.Reinstall
                 /\ CurrentVer(s.Package) # NoVer
                 /\ is_version_available(s.Package, CurrentVer(s.Package))]

\* build_selection_list: dpkg's selection changed since the journal was
\* written
read_dselect(c, ch, s, do_initselections) ==
  IF aptcfg.TrackDselectState /\ ch.selected[s.Package] # StateOf(s.DselectState)
  THEN [MarkFromDselect(c, ch, s.Package) EXCEPT
          !.dirty = TRUE,
          !.P = IF do_initselections THEN @ ELSE MarkKeep(@, s.Package, FALSE)]
  ELSE c

\* build_selection_list: a pending upgrade that has happened is dropped
read_upgrade(c, p) ==
  LET cc == c IN
  IF /\ cc.E[p].upgrade
     /\ \/ cc.E[p].candver # NoVer /\ CurrentVer(p) = cc.E[p].candver
        \/ /\ cc.E[p].candver = NoVer
           /\ GetCandidateVersion(p) # NoVer
           /\ CurrentVer(p) # NoVer
           /\ GetCandidateVersion(p) = CurrentVer(p)
  THEN [cc EXCEPT !.E[p].upgrade = FALSE, !.E[p].candver = NoVer, !.dirty = TRUE]
  ELSE cc

\* build_selection_list: the loop over the sections pkgTagFile::Step
\* delivers; unknown packages and packages without a version are skipped
RECURSIVE read_sections(_, _, _, _, _, _)
read_sections(c, ch, sections, i, do_initselections, reset_reinstall) ==
  IF i > Len(sections) THEN c
  ELSE read_sections(
         IF sections[i].Package \in Pkgs /\ VersionList(sections[i].Package) # {}
         THEN read_upgrade(
                read_dselect(read_section(c, ch, sections[i], reset_reinstall),
                             ch, sections[i], do_initselections),
                sections[i].Package)
         ELSE c,
         ch, sections, i + 1, do_initselections, reset_reinstall)

\* StateCache::Upgradable
Upgradable(P, p) ==
  P[p].CandidateVer # NoVer /\ (CurrentVer(p) = NoVer \/ P[p].CandidateVer > CurrentVer(p))

\* build_selection_list: a package of which the journal says Install
act_install(P, e, p) ==
  IF e.candver # NoVer
  THEN MarkInstall(
         IF /\ e.candver \in VersionList(p)
            /\ \/ Downloadable(p, e.candver)
               \/ e.candver = CurrentVer(p) /\ CurrentState(p) # "ConfigFiles"
         THEN SetCandidateVersion(P, p, e.candver) ELSE P, p)
  ELSE IF CurrentVer(p) = NoVer THEN MarkInstall(P, p)
  ELSE IF e.upgrade /\ Upgradable(P, p)
  THEN MarkInstall(SetReInstall(P, p, e.reinstall), p)
  ELSE SetReInstall(P, p, e.reinstall)

act_new_all_new(c, p, initial_open) ==
  LET cc == c IN
  IF VersionList(p) # {} /\ cc.E[p].new_package THEN [cc EXCEPT !.npc = @ + 1]
  ELSE cc

\* build_selection_list: the new flag of one package
act_new(c, p, initial_open) ==
  LET cc == c IN
  IF initial_open THEN [cc EXCEPT !.E[p].new_package = FALSE]
  ELSE IF VersionList(p) # {} /\ cc.E[p].new_package THEN [cc EXCEPT !.npc = @ + 1]
  ELSE cc

\* build_selection_list: the stored selection of one package acted on
act_selection(c, p, do_initselections) ==
  LET cc == c IN
  CASE cc.E[p].selection_state = "Unknown" ->
         [cc EXCEPT !.E[p].selection_state =
                      IF CurrentVer(p) = NoVer THEN "DeInstall" ELSE "Install"]
    [] cc.E[p].selection_state = "Install" /\ do_initselections ->
         [cc EXCEPT !.P = act_install(@, cc.E[p], p)]
    [] cc.E[p].selection_state = "Hold" /\ do_initselections ->
         [cc EXCEPT !.P = MarkKeep(@, p, FALSE)]
    [] /\ cc.E[p].selection_state = "DeInstall"
       /\ do_initselections
       /\ CurrentVer(p) # NoVer ->
         [cc EXCEPT !.P = MarkDelete(@, p, FALSE)]
    [] /\ cc.E[p].selection_state = "Purge"
       /\ do_initselections
       /\ CurrentVer(p) # NoVer ->
         [cc EXCEPT !.P = MarkDelete(@, p, TRUE)]
    [] OTHER -> cc

\* build_selection_list: a package that was automatic is flagged so
act_auto(c, p) ==
  LET cc == c IN
  IF cc.E[p].previously_auto_package
  THEN [cc EXCEPT !.P = MarkAuto(@, p, TRUE), !.dirty = TRUE]
  ELSE cc

\* build_selection_list: the loop that acts on the states
RECURSIVE act_loop(_, _, _, _)
act_loop(c, i, initial_open, do_initselections) ==
  IF i > Len(cache.order) THEN c
  ELSE act_loop(
         act_auto(act_selection(act_new(c, cache.order[i], initial_open),
                                cache.order[i], do_initselections),
                  cache.order[i]),
         i + 1, initial_open, do_initselections)

\* build_selection_list returns: the snapshot is taken and the action_group
\* goes out of scope
load_finish(c) ==
  LET cc == c IN
  action_group_close([duplicate_cache(cc) EXCEPT !.obs.result = cc.obs.errors = {}],
                     FALSE)

\* build_selection_list: pkgTagFile::Step left an error pending
load_fail(c) ==
  action_group_close(
    [Error(c, "Problem parsing, is it corrupt or malformed?") EXCEPT
       !.obs.result = FALSE],
    FALSE)

\* build_selection_list with the sections read
load_read(c, corrupt, do_initselections) ==
  IF corrupt THEN load_fail(c)
  ELSE load_finish(act_loop(c, 1, FALSE, do_initselections))

\* aptitudeDepCache::Init on a new engine: build_selection_list reading
\* the file f
build_selection_list(ch, f, do_initselections, reset_reinstall) ==
  IF ~f.exists
  THEN load_finish(act_loop([load_start(ch) EXCEPT !.dirty = TRUE], 1, TRUE,
                            do_initselections))
  ELSE load_read(read_sections(load_start(ch), ch, f.sections, 1,
                               do_initselections, reset_reinstall),
                 f.corrupt, do_initselections)

\* the cache a new process builds: dpkg's selections and apt's automatic
\* flags are those on disk
CacheOnDisk ==
  [cache EXCEPT !.autoflag = files.extended_states, !.selected = files.selections]

\* the state of the new engine
Loaded(alt, do_initselections, reset_reinstall, ch, c) ==
  LET cc == c IN
  /\ cache' = ch
  /\ PkgState' = cc.P
  /\ package_states' = cc.E
  /\ backup_state' = cc.B
  /\ dirty' = cc.dirty
  /\ group_level' = cc.gl
  /\ new_package_count' = cc.npc
  /\ user_tags' = cc.known_tags
  /\ undo_items' = << >>
  /\ saving' = NotSaving
  /\ last' = [op |-> "load",
              args |-> Args("", do_initselections, reset_reinstall, NoVer, alt),
              pre |-> Pre, obs |-> cc.obs, made |-> FALSE, prev_made |-> FALSE]
  /\ UNCHANGED <<aptcfg, permission, files>>

\* a new process opens the cache: from the global journal or (u) from the
\* alternate one
OpLoad ==
  /\ nops < MaxOps
  /\ saving.pc \in {"idle", "stopped"}
  /\ nops' = nops + 1
  /\ UNCHANGED <<read_only, lock, apt, system_lock>>
  /\ \E alt \in BOOLEAN, do_initselections \in BOOLEAN, reset_reinstall \in BOOLEAN :
       Loaded(alt, do_initselections, reset_reinstall, CacheOnDisk,
              build_selection_list(CacheOnDisk,
                                   IF alt THEN files.status_fname ELSE files.statefile,
                                   do_initselections, reset_reinstall))

\* build_selection_list: GetLock left an error pending and read_only is
\* set; the action_group goes out of scope on a read-only store without
\* permission, so end_action_group only lowers group_level.  No snapshot
\* was taken yet: backup_state is given the value of the defaults, which
\* nothing reads while the store stays read-only
load_lock_fail(ch) ==
  LET c == load_start(ch) IN
  [Error([c EXCEPT !.P = MarkAndSweep(@), !.gl = @ - 1, !.obs.snapshots = 0],
         "Could not get lock")
     EXCEPT !.obs.result = FALSE]

\* build_selection_list returns without the lock: read_only is set before
\* the action_group goes out of scope, and without permission
\* end_action_group only lowers group_level
load_finish_read_only(c) ==
  LET cc == c IN
  [duplicate_cache(cc) EXCEPT !.obs.result = cc.obs.errors = {},
                              !.P = MarkAndSweep(@),
                              !.gl = @ - 1]

\* build_selection_list on an engine that has not taken the lock
build_selection_list_read_only(ch, f, do_initselections, reset_reinstall) ==
  IF ~f.exists
  THEN load_finish_read_only(act_loop([load_start(ch) EXCEPT !.dirty = TRUE], 1,
                                      TRUE, do_initselections))
  ELSE IF f.corrupt
  THEN load_fail(read_sections(load_start(ch), ch, f.sections, 1,
                               do_initselections, reset_reinstall))
  ELSE load_finish_read_only(
         act_loop(read_sections(load_start(ch), ch, f.sections, 1,
                                do_initselections, reset_reinstall),
                  1, FALSE, do_initselections))

\* aptitudeDepCache::Init on a new engine (read_only true, lock -1), up to
\* the open of the journal: with WithLock the lock file is locked, which
\* another holder or missing rights refuse; a refusal returns false with
\* read_only set, otherwise read_only is cleared for the set-up of the
\* initial state
InitTakeLock ==
  /\ nops < MaxOps
  /\ saving.pc \in {"idle", "stopped"}
  /\ apt.pc = "main"
  /\ apt.cache_file
  /\ nops' = nops + 1
  /\ \E WithLock \in BOOLEAN, granted \in BOOLEAN :
       IF WithLock /\ ~granted
       THEN /\ lock' = -1
            /\ read_only' = TRUE
            /\ \E alt \in BOOLEAN, do_initselections \in BOOLEAN,
                  reset_reinstall \in BOOLEAN :
                 Loaded(alt, do_initselections, reset_reinstall, CacheOnDisk,
                        load_lock_fail(CacheOnDisk))
            /\ UNCHANGED apt
       ELSE /\ lock' = IF WithLock THEN LockFd ELSE -1
            /\ read_only' = FALSE
            /\ apt' = [apt EXCEPT !.pc = "load_read"]
            /\ UNCHANGED <<cache, aptcfg, PkgState, package_states,
                           backup_state, group_level, dirty, permission,
                           undo_items, new_package_count, user_tags, files,
                           saving, last>>
  /\ UNCHANGED system_lock

\* aptitudeDepCache::Init from the open of the journal to the return: a
\* journal that does not parse returns at once; otherwise the states are
\* set up and read_only becomes (lock == -1)
InitReadJournal ==
  /\ apt.pc = "load_read"
  /\ apt' = [apt EXCEPT !.pc = "main"]
  /\ \E alt \in BOOLEAN, do_initselections \in BOOLEAN, reset_reinstall \in BOOLEAN :
       LET f == IF alt THEN files.status_fname ELSE files.statefile IN
       /\ Loaded(alt, do_initselections, reset_reinstall, CacheOnDisk,
                 IF lock = -1 /\ ~permission
                 THEN build_selection_list_read_only(CacheOnDisk, f,
                                                     do_initselections,
                                                     reset_reinstall)
                 ELSE build_selection_list(CacheOnDisk, f, do_initselections,
                                           reset_reinstall))
       /\ read_only' = IF f.exists /\ f.corrupt THEN read_only ELSE lock = -1
  /\ UNCHANGED <<lock, nops, system_lock>>

\* the global journal gets damaged on disk: the parser reads some of its
\* sections and fails
JournalDamaged ==
  /\ nops < MaxOps
  /\ saving.pc = "idle"
  /\ files.statefile.exists
  /\ ~files.statefile.corrupt
  /\ nops' = nops + 1
  /\ \E k \in 0..Len(files.statefile.sections) :
       files' = [files EXCEPT
                   !.statefile = [exists |-> TRUE,
                                  sections |-> SubSeq(@.sections, 1, k),
                                  corrupt |-> TRUE]]
  /\ saving' = NotSaving
  /\ UNCHANGED <<package_states, last>>
  /\ UNCHANGED system_lock
  /\ SaveFrame

(***************************************************************************)
(* The journal universe: an application a with an upgrade; the library b   *)
(* it depends on, of which the installed version is no longer available    *)
(* and a newer version is listed without a source; and a removed package   *)
(* n, selected for installation in dpkg, with two available versions.      *)
(***************************************************************************)
JournalCache ==
  [ order        |-> <<"a", "b", "n">>,
    versions     |-> [a |-> {1, 2}, b |-> {1, 2}, n |-> {1, 2}],
    current      |-> [a |-> 1, b |-> 1, n |-> NoVer],
    currentstate |-> [a |-> "Installed", b |-> "Installed", n |-> "ConfigFiles"],
    policycand   |-> [a |-> 2, b |-> 1, n |-> 2],
    downloadable |-> {<<"a", 1>>, <<"a", 2>>, <<"n", 1>>, <<"n", 2>>},
    essential    |-> {},
    important    |-> {},
    priority     |-> [a |-> "optional", b |-> "optional", n |-> "optional"],
    autoflag     |-> {},
    selected     |-> [a |-> "Install", b |-> "Install", n |-> "Install"],
    deps         |-> << Dep("a", 1, "Depends", "b", "any", NoVer),
                        Dep("a", 2, "Depends", "b", "any", NoVer) >>,
    notautomatic |-> {},
    provides     |-> << >> ]

\* the state of an engine that has loaded the file f
LoadedFrom(f, c) ==
  LET cc == c IN
  /\ files = [InitialFiles(JournalCache) EXCEPT !.statefile = f]
  /\ PkgState = cc.P
  /\ package_states = cc.E
  /\ backup_state = cc.B
  /\ dirty = cc.dirty
  /\ group_level = cc.gl
  /\ new_package_count = cc.npc
  /\ user_tags = cc.known_tags
  /\ last = [op |-> "load", args |-> Args("", TRUE, FALSE, NoVer, FALSE),
             pre |-> [P |-> cc.P, E |-> cc.E, B |-> cc.B, dirty |-> cc.dirty,
                      gl |-> 0, npc |-> cc.npc, tags |-> cc.known_tags,
                      items |-> << >>, denied |-> FALSE],
             obs |-> cc.obs, made |-> FALSE, prev_made |-> FALSE]

\* the journal the first run writes
FirstJournal(c) == LET cc == c IN File(journal_buffer(cc.P, cc.E))

\* the journal of a run in which the user chose the older version of n and
\* scheduled its installation
SessionJournal(c) ==
  {FirstJournal(marked) :
     marked \in {mark_install(chosen, "n", FALSE, FALSE) :
                   chosen \in {set_candidate_version(started, "n", 1, FALSE) :
                                 started \in {c}}}}

\* the engine holds the lock and has loaded either no journal (the first
\* run), the journal the first run wrote, or the journal of a run that
\* scheduled an installation
InitJournal ==
  /\ cache = JournalCache
  /\ aptcfg \in {cf \in Configs : cf.DeleteUnused /\ ~cf.PurgeUnused}
  /\ read_only = FALSE
  /\ lock = LockFd
  /\ permission = FALSE
  /\ undo_items = << >>
  /\ nops = 0
  /\ saving = NotSaving
  /\ apt = CacheLoaded
  /\ system_lock = [have |-> TRUE, rivals |-> "none"]
  /\ \E f \in {NoFile,
               FirstJournal(build_selection_list(JournalCache, NoFile, TRUE, FALSE))}
               \cup SessionJournal(build_selection_list(JournalCache, NoFile, TRUE, FALSE)) :
       LoadedFrom(f, build_selection_list(JournalCache, f, TRUE, FALSE))

NextJournal ==
  \/ OpMarkInstall
  \/ OpMarkDelete
  \/ OpMarkKeep
  \/ OpSetCandidateVersion
  \/ OpMarkAutoInstalled
  \/ OpAttachUserTag
  \/ OpSetNewFlag
  \/ SaveOpen
  \/ SaveWrite
  \/ SaveUnlinkOld
  \/ SaveLinkOld
  \/ SaveRename
  \/ SaveSelections
  \/ SaveStop
  \/ OpLoad
  \/ JournalDamaged

SpecJournal == InitJournal /\ [][NextJournal]_vars

(***************************************************************************)
(* The lock universe: the journal universe opened with or without the      *)
(* lock, by a process that may be refused the lock, from a journal that    *)
(* may be damaged.                                                         *)
(***************************************************************************)
InitLock ==
  /\ cache = JournalCache
  /\ aptcfg \in {cf \in Configs : cf.DeleteUnused /\ ~cf.PurgeUnused}
  /\ read_only \in BOOLEAN
  /\ lock = IF read_only THEN -1 ELSE LockFd
  /\ permission = FALSE
  /\ undo_items = << >>
  /\ nops = 0
  /\ saving = NotSaving
  /\ apt = CacheLoaded
  /\ system_lock = [have |-> TRUE, rivals |-> "none"]
  /\ \E f \in {NoFile,
               FirstJournal(build_selection_list(JournalCache, NoFile, TRUE, FALSE))} :
       LoadedFrom(f, build_selection_list(JournalCache, f, TRUE, FALSE))

NextLock ==
  \/ InitTakeLock
  \/ InitReadJournal
  \/ JournalDamaged
  \/ OpMarkInstall
  \/ OpMarkKeep

SpecLock == InitLock /\ [][NextLock]_vars

(***************************************************************************)
(* Selections changed outside the engine.  Between two runs another tool   *)
(* (dpkg --set-selections, dselect) rewrites the selection of a package    *)
(* in dpkg's status database, which the next load reads as                 *)
(* pkg->SelectedState and compares with the Dselect-State of the journal.  *)
(***************************************************************************)
\* the run that wrote the journal started with the package a selected
\* for installation, held or deselected in dpkg's database, and found no
\* journal
InitDselect ==
  /\ \E sel \in {"Install", "Hold", "DeInstall"} :
       cache = [JournalCache EXCEPT !.selected["a"] = sel]
  /\ aptcfg \in {cf \in Configs : cf.DeleteUnused /\ ~cf.PurgeUnused}
  /\ read_only = FALSE
  /\ lock = LockFd
  /\ permission = FALSE
  /\ undo_items = << >>
  /\ nops = 0
  /\ saving = NotSaving
  /\ apt = CacheLoaded
  /\ system_lock = [have |-> TRUE, rivals |-> "none"]
  /\ files = InitialFiles(cache)
  /\ \E c \in {build_selection_list(cache, NoFile, TRUE, FALSE)} :
       /\ PkgState = c.P
       /\ package_states = c.E
       /\ backup_state = c.B
       /\ dirty = c.dirty
       /\ group_level = c.gl
       /\ new_package_count = c.npc
       /\ user_tags = c.known_tags
       /\ last = [op |-> "load", args |-> Args("", TRUE, FALSE, NoVer, FALSE),
                  pre |-> [P |-> c.P, E |-> c.E, B |-> c.B, dirty |-> c.dirty,
                           gl |-> 0, npc |-> c.npc, tags |-> c.known_tags,
                           items |-> << >>, denied |-> FALSE],
                  obs |-> c.obs, made |-> FALSE, prev_made |-> FALSE]

\* another tool changes the selection of one package, once, after the
\* engine has saved its state and before the next run loads it
ExternalSelection ==
  /\ saving.pc = "idle"
  /\ last.op = "save"
  /\ nops < MaxOps
  /\ \E p \in Pkgs, s \in {"Install", "Hold", "DeInstall", "Purge"} :
       /\ files.selections[p] # s
       /\ files' = [files EXCEPT !.selections[p] = s]
       /\ last' = [op |-> "external", args |-> Args(p, FALSE, FALSE, NoVer, FALSE),
                   pre |-> Pre, obs |-> EmptyObs, made |-> FALSE,
                   prev_made |-> last.made]
  /\ UNCHANGED <<nops, package_states, saving>>
  /\ UNCHANGED system_lock
  /\ SaveFrame

NextDselect ==
  \/ OpMarkAutoInstalled
  \/ SaveOpen
  \/ SaveWrite
  \/ SaveUnlinkOld
  \/ SaveLinkOld
  \/ SaveRename
  \/ SaveSelections
  \/ ExternalSelection
  \/ OpLoad

SpecDselect == InitDselect /\ [][NextDselect]_vars

(***************************************************************************)
(* The second run: the reinstatement universe, with its virtual package,   *)
(* loaded from the journal the first run wrote, and the operations on the  *)
(* new flags.                                                              *)
(***************************************************************************)
InitSecondRun ==
  /\ cache = SweepCache
  /\ aptcfg \in {cf \in Configs : cf.DeleteUnused /\ ~cf.PurgeUnused}
  /\ read_only \in BOOLEAN
  /\ lock = IF read_only THEN -1 ELSE LockFd
  /\ permission = FALSE
  /\ undo_items = << >>
  /\ nops = 0
  /\ saving = NotSaving
  /\ apt = CacheLoaded
  /\ system_lock = [have |-> TRUE, rivals |-> "none"]
  /\ files = InitialFiles(cache)
  /\ \E c \in {build_selection_list(
                  cache,
                  FirstJournal(build_selection_list(cache, NoFile, TRUE, FALSE)),
                  TRUE, FALSE)} :
       /\ PkgState = c.P
       /\ package_states = c.E
       /\ backup_state = c.B
       /\ dirty = c.dirty
       /\ group_level = c.gl
       /\ new_package_count = c.npc
       /\ user_tags = c.known_tags
       /\ last = [op |-> "load", args |-> Args("", TRUE, FALSE, NoVer, FALSE),
                  pre |-> [P |-> c.P, E |-> c.E, B |-> c.B, dirty |-> c.dirty,
                           gl |-> 0, npc |-> c.npc, tags |-> c.known_tags,
                           items |-> << >>, denied |-> FALSE],
                  obs |-> c.obs, made |-> FALSE, prev_made |-> FALSE]

NextSecondRun ==
  \/ OpSetNewFlag
  \/ OpForgetNew
  \/ OpUndo
  \/ OpMarkKeep
  \/ OpSetPermission

SpecSecondRun == InitSecondRun /\ [][NextSecondRun]_vars

(***************************************************************************)
(* The life cycle of the cache in apt.cc and the installer run of          *)
(* download_install_manager: the cache file and the resolver manager are   *)
(* created by apt_load_cache and destroyed by apt_close_cache, the         *)
(* resolver's thread reads the cache in the background, and dpkg's lock is *)
(* released for the installer and for the write of the selections.         *)
(***************************************************************************)
\* what the actions of the life cycle leave alone
EngineFrame ==
  UNCHANGED <<cache, aptcfg, PkgState, package_states, backup_state,
              group_level, dirty, permission, undo_items, new_package_count,
              user_tags, files, saving, last>>

\* the background thread of the resolver manager takes a job and reads the
\* cache, or finishes the job; it exists as long as the manager does
ResolverThread ==
  /\ apt.reader # "none"
  /\ apt' = [apt EXCEPT !.reader = IF @ = "waiting" THEN "reading" ELSE "waiting"]
  /\ UNCHANGED <<read_only, lock, system_lock, nops>>
  /\ EngineFrame

\* another apt or dpkg takes the system lock while this program does not
\* hold it, or gives it back
OtherTool ==
  /\ \/ /\ ~system_lock.have
        /\ system_lock.rivals = "waiting"
        /\ system_lock' = [system_lock EXCEPT !.rivals = "holding"]
     \/ /\ system_lock.rivals = "holding"
        /\ system_lock' = [system_lock EXCEPT !.rivals = "waiting"]
  /\ UNCHANGED <<read_only, lock, apt, nops>>
  /\ EngineFrame

apt_close_cache_file_first ==
  /\ \/ /\ apt.pc = "main"
        /\ saving.pc = "idle"
        /\ nops + 1 < MaxOps
        /\ nops' = nops + 1
        /\ \E then \in {"load", "return"} :
             apt' = [apt EXCEPT !.pc = "closing", !.then = then,
                                !.rval = "none", !.errors = {},
                                !.joined = FALSE]
        /\ UNCHANGED system_lock
     \/ /\ apt.pc = "closing"
        /\ apt' = [apt EXCEPT !.pc = "close_file", !.cache_file = FALSE]
        /\ system_lock' = [system_lock EXCEPT !.have = FALSE]
        /\ UNCHANGED nops
     \/ /\ apt.pc = "close_file"
        /\ apt' = [apt EXCEPT !.pc = IF apt.then = "return" THEN "main"
                                     ELSE "load_open",
                              !.resman = FALSE, !.reader = "none",
                              !.joined = (apt.reader = "reading")]
        /\ UNCHANGED <<system_lock, nops>>
  /\ UNCHANGED <<read_only, lock>>
  /\ EngineFrame

\* apt_close_cache, called by apt_reload_cache and
\* download_update_manager::finish (a load follows) or by apt_shutdown, and
\* its steps: delete resman, whose destructor stops and joins the thread,
\* then delete apt_cache_file, whose destructor releases the lock
apt_close_cache ==
  /\ \/ /\ apt.pc = "main"
        /\ saving.pc = "idle"
        /\ nops + 1 < MaxOps
        /\ nops' = nops + 1
        /\ \E then \in {"load", "return"} :
             apt' = [apt EXCEPT !.pc = "closing", !.then = then,
                                !.rval = "none", !.errors = {},
                                !.joined = FALSE]
        /\ UNCHANGED system_lock
     \/ /\ apt.pc = "closing"
        /\ apt' = [apt EXCEPT !.pc = "close_file", !.resman = FALSE,
                              !.reader = "none",
                              !.joined = (apt.reader = "reading")]
        /\ UNCHANGED <<system_lock, nops>>
     \/ /\ apt.pc = "close_file"
        /\ apt' = [apt EXCEPT !.pc = IF apt.then = "return" THEN "main"
                                     ELSE "load_open",
                              !.cache_file = FALSE]
        /\ system_lock' = [system_lock EXCEPT !.have = FALSE]
        /\ UNCHANGED nops
  /\ UNCHANGED <<read_only, lock>>
  /\ EngineFrame

\* apt_load_cache, with operation_needs_lock, as root: nothing to do when a
\* cache is loaded; aptitudeCacheFile::Open with the lock, and without it
\* when the lock cannot be taken (read-only mode); the cache file is deleted
\* when the journal cannot be read; then, after save_selection_list if the
\* lock is held, the resolver manager is created unless a shutdown is in
\* progress
apt_load_cache ==
  \/ /\ \/ apt.pc = "load_open"
        \/ apt.pc = "main" /\ ~apt.cache_file /\ saving.pc = "idle"
     /\ \E locked \in {system_lock.rivals # "holding"},
           c \in {build_selection_list(CacheOnDisk, files.statefile, TRUE,
                                       apt.then = "load_reset")} :
          IF c.obs.result
          THEN /\ Loaded(FALSE, TRUE, apt.then = "load_reset", CacheOnDisk, c)
               /\ read_only' = ~locked
               /\ lock' = IF locked THEN LockFd ELSE -1
               /\ system_lock' = [system_lock EXCEPT !.have = locked]
               /\ apt' = [apt EXCEPT
                            !.pc = "load_save", !.cache_file = TRUE,
                            !.errors = IF locked THEN @
                                       ELSE @ \cup {"Could not lock the cache file"}]
          ELSE /\ apt' = [apt EXCEPT !.pc = "main", !.then = "return",
                                     !.errors = @ \cup c.obs.errors]
               /\ system_lock' = [system_lock EXCEPT !.have = FALSE]
               /\ UNCHANGED <<read_only, lock, cache, PkgState, package_states,
                              backup_state, group_level, dirty, undo_items,
                              new_package_count, user_tags, saving, last,
                              aptcfg, permission, files>>
     /\ UNCHANGED nops
  \/ /\ apt.pc = "load_save"
     /\ saving.pc = "idle"
     /\ ~system_lock.have \/ last.op = "save"
     /\ \E shutdown_in_progress \in BOOLEAN :
          apt' = IF shutdown_in_progress
                 THEN [apt EXCEPT !.pc = "main", !.then = "return"]
                 ELSE [apt EXCEPT !.pc = "main", !.then = "return",
                                  !.resman = TRUE, !.reader = "waiting"]
     /\ UNCHANGED <<read_only, lock, system_lock, nops>>
     /\ EngineFrame

\* download_install_manager::finish: finish_pre_dpkg releases the lock
\* unless the download failed or only a download was asked for; run_dpkg;
\* finish_post_dpkg gets the archives again, regains the lock, and unless
\* dpkg has to run again closes the cache and, after an installer run,
\* loads it again
download_install_manager_finish ==
  /\ \/ /\ apt.pc = "main"
        /\ apt.cache_file
        /\ saving.pc = "idle"
        /\ nops + 1 < MaxOps
        /\ nops' = nops + 1
        /\ \E download_only \in BOOLEAN, fetched \in BOOLEAN, forked \in BOOLEAN :
             /\ download_only => forked
             /\ ~fetched => forked
             /\ apt' = [apt EXCEPT
                          !.pc = IF fetched /\ forked /\ ~download_only
                                 THEN "dpkg" ELSE "post_dpkg",
                          !.then = IF download_only THEN "return" ELSE "load",
                          !.rval = IF fetched /\ forked THEN "success"
                                   ELSE "failure",
                          !.errors = {}, !.joined = FALSE]
             /\ system_lock' = IF fetched /\ ~download_only
                               THEN [system_lock EXCEPT !.have = FALSE]
                               ELSE system_lock
     \/ /\ apt.pc = "dpkg"
        /\ \E dpkg_result \in {"success", "failure", "do_again"} :
             apt' = [apt EXCEPT !.pc = "post_dpkg", !.rval = dpkg_result]
        /\ UNCHANGED <<system_lock, nops>>
     \/ /\ apt.pc = "post_dpkg"
        /\ \E archives \in BOOLEAN :
             LET regained == system_lock.have \/ system_lock.rivals # "holding"
                 rval == IF ~archives \/ ~regained THEN "failure" ELSE apt.rval
             IN /\ system_lock' = IF archives /\ regained
                                  THEN [system_lock EXCEPT !.have = TRUE]
                                  ELSE system_lock
                /\ apt' = [apt EXCEPT
                             !.pc = IF rval = "do_again" THEN "main" ELSE "closing",
                             !.then = IF apt.then = "load" /\ apt.rval = "success"
                                      THEN "load_reset" ELSE @,
                             !.rval = rval,
                             !.errors = IF archives /\ ~regained
                                        THEN {"Could not regain the system lock"}
                                        ELSE {}]
        /\ UNCHANGED nops
  /\ UNCHANGED <<read_only, lock>>
  /\ EngineFrame

\* the program runs as root on a system without a journal, dselect tracking
\* is off, and another tool waits for dpkg's lock
InitSession ==
  /\ cache = JournalCache
  /\ aptcfg \in {[cf EXCEPT !.TrackDselectState = FALSE] :
                   cf \in {cg \in Configs : cg.DeleteUnused /\ ~cg.PurgeUnused}}
  /\ read_only = FALSE
  /\ lock = LockFd
  /\ permission = FALSE
  /\ undo_items = << >>
  /\ nops = 0
  /\ saving = NotSaving
  /\ apt = CacheLoaded
  /\ system_lock = [have |-> TRUE, rivals |-> "waiting"]
  /\ LoadedFrom(NoFile, build_selection_list(JournalCache, NoFile, TRUE, FALSE))

NextSession ==
  \/ ResolverThread
  \/ OtherTool
  \/ apt_close_cache
  \/ apt_load_cache
  \/ download_install_manager_finish
  \/ OpMarkAutoInstalled
  \/ SaveOpen
  \/ SaveWrite
  \/ SaveUnlinkOld
  \/ SaveLinkOld
  \/ SaveRename
  \/ SaveSelections

SpecSession == InitSession /\ [][NextSession]_vars

(***************************************************************************)
(* Properties.                                                             *)
(***************************************************************************)
\* the last operation ran the commit of an outermost action group
Committed == last.obs.commits > 0 /\ last.pre.gl + (IF last.op = "end" THEN 0 ELSE 1) = 1

\* the selection state the mapping table gives a package's mode and flags
SelectionMapped(P, E, p) ==
  CASE P[p].Mode = "Install" -> E[p].selection_state = "Install"
    [] P[p].Mode = "Delete" ->
         E[p].selection_state = IF P[p].Purge THEN "Purge" ELSE "DeInstall"
    [] P[p].Mode = "Keep" ->
         IF CurrentVer(p) = NoVer
         THEN E[p].selection_state = IF P[p].Purge THEN "Purge" ELSE "DeInstall"
         ELSE E[p].selection_state \in {"Hold", "Install"}

\* C1: after every outermost commit every package's selection_state is the
\* one the mapping table gives its Mode and flags
C1_SelectionMappedAfterCommit ==
  Committed => \A p \in Pkgs : SelectionMapped(PkgState, package_states, p)

\* C2: the installed package named after the running tool is never in Mode
\* Delete and never has selection_state DeInstall or Purge
C2_SelfProtected ==
  \A p \in Pkgs :
    (p = "aptitude" /\ is_installed(p)) =>
      /\ PkgState[p].Mode # "Delete"
      /\ package_states[p].selection_state \notin {"DeInstall", "Purge"}

\* the operations that run inside an action_group of their own
GroupOps ==
  {"mark_install", "mark_delete", "mark_keep", "forbid_upgrade",
   "mark_auto_installed", "undo"}

\* the last operation held an end() that took group_level from 1 to 0
OutermostEnd ==
  \/ last.op = "end" /\ last.pre.gl = 1
  \/ last.op \in GroupOps /\ last.pre.gl = 0

\* C3: group_level is never negative, and an operation runs Sweep or
\* refreshes the Snapshot only in an end() that takes group_level from 1 to 0
C3_SweepAndSnapshotOnlyAtOutermostEnd ==
  /\ group_level >= 0
  /\ (last.obs.swept > 0 \/ last.obs.snapshots > 0) => OutermostEnd

\* the mutation operations
MutationOps ==
  {"mark_install", "mark_delete", "mark_keep", "set_candidate_version",
   "forbid_upgrade", "mark_auto_installed", "attach_user_tag",
   "detach_user_tag", "forget_new", "set_new_flag"}

\* the last operation left BaseState, ExtendedState, dirty and group_level
\* as they were
StateUnchanged ==
  /\ PkgState = last.pre.P
  /\ package_states = last.pre.E
  /\ dirty = last.pre.dirty
  /\ group_level = last.pre.gl

\* C4: on a read-only store without permission and outside any action
\* group, every mutation operation leaves the state unchanged and raises
\* the permission-denied condition
C4_ReadOnlyRefuses ==
  (last.op \in MutationOps /\ last.pre.denied /\ last.pre.gl = 0) =>
    (StateUnchanged /\ last.obs.denied)

\* the refusal of mark_delete for the installed package of the running tool
SelfRemovalRefused ==
  /\ last.op = "mark_delete"
  /\ last.args.pkg = "aptitude"
  /\ is_installed("aptitude")

\* C4 (amended): on a read-only store without permission and outside any
\* action group, every mutation operation leaves the state unchanged; it
\* raises the permission-denied condition, but for mark_delete of the
\* installed package of the running tool, which raises the error "Cannot
\* remove aptitude within aptitude" instead
C4_ReadOnlyRefusesOrSelfError ==
  (last.op \in MutationOps /\ last.pre.denied /\ last.pre.gl = 0) =>
    /\ StateUnchanged
    /\ IF SelfRemovalRefused
       THEN /\ ~last.obs.denied
            /\ "Cannot remove aptitude within aptitude" \in last.obs.errors
       ELSE last.obs.denied /\ last.obs.errors = {}

\* a refused mark_install of the uninstalled package n, and a refused
\* set_new_flag
C4_Witness ==
  /\ last.pre.denied /\ last.pre.gl = 0 /\ last.obs.denied
  /\ \/ last.op = "mark_install" /\ last.args.pkg = "n"
     \/ last.op = "set_new_flag" /\ last.args.b1
  /\ StateUnchanged

\* C5 (as stated): on a read-only store without permission, a mutation
\* operation called inside an open action group applies its effect:
\* mark_install leaves the package selected for installation, and the
\* marking operations leave the store dirty
C5_NestedMutationProceeds ==
  (last.pre.denied /\ last.pre.gl > 0) =>
    /\ last.op = "mark_install" =>
         /\ package_states[last.args.pkg].selection_state = "Install"
         /\ dirty
    /\ last.op = "mark_keep" => dirty

\* C5 (amended): on a read-only store without permission, a mutation
\* operation called inside an open action group is skipped: it leaves the
\* state unchanged and raises no permission-denied condition
C5_NestedMutationSkipped ==
  (last.op \in MutationOps /\ last.pre.denied /\ last.pre.gl > 0) =>
    (StateUnchanged /\ ~last.obs.denied)

\* the undo item the last operation applied
UndoneItem == last.pre.items[last.args.ver]

\* the package of an apt_undoer has the values the record carries
Restored(it) ==
  /\ PkgState[it.pkg].Mode = it.prev_mode
  /\ PkgState[it.pkg].Auto = it.prev_auto
  /\ PkgState[it.pkg].Purge = it.prev_purge
  /\ PkgState[it.pkg].ReInstall = it.prev_reinstall
  /\ package_states[it.pkg].remove_reason = it.prev_removereason
  /\ package_states[it.pkg].selection_state = it.prev_selection_state
  /\ package_states[it.pkg].forbidver = it.prev_forbidver

\* C6: applying the undo record a committed mutation produced for a package,
\* right after that mutation, restores the package's Mode, its Auto, Purge
\* and ReInstall flags, remove_reason, selection_state and forbidden version
\* to the values they had before the mutation
C6_UndoRestores ==
  (last.op = "undo" /\ last.prev_made /\ UndoneItem.type = "apt_undoer") =>
    Restored(UndoneItem)

\* the last operation ran the commit of an outermost action group and gave
\* it an undo sink
CommittedWithSink ==
  /\ last.obs.commits > 0
  /\ last.op # "undo"
  /\ last.args.undo

\* the undo records the last operation put into the sink
Produced == IF last.made THEN undo_items ELSE << >>
RecordsOf(p) ==
  {i \in DOMAIN Produced : Produced[i].type = "apt_undoer" /\ Produced[i].pkg = p}

\* the state the commit compared with the Snapshot and the Snapshot
AtCommit == last.obs.commit_pre

DiffersPrimary(p) ==
  \/ AtCommit.P[p].Mode # AtCommit.B.P[p].Mode
  \/ AtCommit.P[p].Auto # AtCommit.B.P[p].Auto
  \/ AtCommit.E[p].selection_state # AtCommit.B.E[p].selection_state
  \/ AtCommit.E[p].reinstall # AtCommit.B.E[p].reinstall
  \/ AtCommit.E[p].remove_reason # AtCommit.B.E[p].remove_reason
  \/ AtCommit.E[p].forbidver # AtCommit.B.E[p].forbidver

DiffersCosmetic(p) ==
  \/ InstBroken(AtCommit.P, p) # InstBroken(AtCommit.B.P, p)
  \/ AtCommit.P[p].Garbage # AtCommit.B.P[p].Garbage
  \/ AtCommit.P[p].CandidateVer # AtCommit.B.P[p].CandidateVer
  \/ AtCommit.E[p].user_tags # AtCommit.B.E[p].user_tags
  \/ AtCommit.E[p].new_package # AtCommit.B.E[p].new_package

CarriesSnapshot(r, p) ==
  /\ r.prev_mode = AtCommit.B.P[p].Mode
  /\ r.prev_auto = AtCommit.B.P[p].Auto
  /\ r.prev_purge = AtCommit.B.P[p].Purge
  /\ r.prev_reinstall = AtCommit.B.P[p].ReInstall
  /\ r.prev_removereason = AtCommit.B.E[p].remove_reason
  /\ r.prev_selection_state = AtCommit.B.E[p].selection_state
  /\ r.prev_forbidver = AtCommit.B.E[p].forbidver

SoleAutoDependency(A, B) ==
  /\ A # B
  /\ CurrentVer(A) # NoVer
  /\ \E d \in Range(DependsList(A, CurrentVer(A))) :
       d.type = "Depends" /\ d.target = B
  /\ is_installed(B)
  /\ last.pre.P[B].Auto
  /\ B \notin cache.essential \cup cache.important
  /\ last.pre.P[B].Mode # "Delete"
  /\ \A d \in Range(RevDependsList(B)) : d.pkg = A

\* the last operation was a mark_delete that the store did not refuse
DeleteCalled(A) ==
  /\ last.op = "mark_delete"
  /\ last.args.pkg = A
  /\ ~last.pre.denied
  /\ ~(A = "aptitude" /\ is_installed(A))

\* C8: with the removal of unused packages enabled, mark_delete(A) leaves
\* the installed, automatically installed package B, which only A depends
\* on, in Mode Delete with the remove reason unused
C8_CascadeRemovesSoleDependency ==
  \A A \in Pkgs, B \in Pkgs :
    (aptcfg.DeleteUnused /\ DeleteCalled(A) /\ SoleAutoDependency(A, B)) =>
      /\ PkgState[B].Mode = "Delete"
      /\ package_states[B].remove_reason = "unused"

\* the last operation ran Sweep; AtSweep is the state Sweep started from
Swept == last.obs.swept > 0
AtSweep == last.obs.sweep_pre

\* p is scheduled for removal as unused and is not Garbage when Sweep starts
UnusedNotGarbage(p) ==
  /\ AtSweep.P[p].Mode = "Delete"
  /\ AtSweep.E[p].remove_reason = "unused"
  /\ ~AtSweep.P[p].Garbage

\* the current version of q has a Depends or PreDepends clause that the
\* current version of p satisfies, directly or through a virtual package
\* that version provides
CurrentDependsOn(q, p) ==
  /\ q # p
  /\ CurrentVer(q) # NoVer
  /\ CurrentVer(p) # NoVer
  /\ \E d \in Range(DependsList(q, CurrentVer(q))) :
       /\ d.type \in {"Depends", "PreDepends"}
       /\ \/ d.target = p /\ CheckDep(CurrentVer(p), d.op, d.tver)
          \/ \E r \in Range(VerProvidesList(p, CurrentVer(p))) :
               d.target = r.name /\ CheckDep(r.pver, d.op, d.tver)

\* some package that remains installed after Sweep depends on p
NeededByRemaining(p) ==
  \E D \in Pkgs : RemainsInstalled(PkgState, D) /\ CurrentDependsOn(D, p)

\* the current version of p conflicts with a package that is installed or
\* to be installed when Sweep starts
Conflicted(p) == is_conflicted(AtSweep.P, p, CurrentVer(p)) # NoDep

\* C9 (as stated): a package scheduled for removal as unused that is not
\* Garbage, that a remaining package depends on and that conflicts with
\* nothing installed or to be installed is in Mode Keep after Sweep
C9_NeededIsReinstated ==
  Swept =>
    \A C \in Pkgs :
      (UnusedNotGarbage(C) /\ NeededByRemaining(C) /\ ~Conflicted(C)) =>
        PkgState[C].Mode = "Keep"

\* the candidates that a conflict blocks, and those whose current versions
\* depend on one of them through candidates
RECURSIVE BlockedClosure(_)
BlockedClosure(T) ==
  LET T2 == T \cup {x \in Pkgs : UnusedNotGarbage(x)
                                 /\ \E t \in T : CurrentDependsOn(x, t)}
  IN IF T2 = T THEN T ELSE BlockedClosure(T2)

BlockedCandidates ==
  BlockedClosure({x \in Pkgs : UnusedNotGarbage(x) /\ Conflicted(x)})

\* C9 (amended): such a package is in Mode Keep after Sweep when, besides,
\* its current version does not depend, directly or through other
\* candidates, on a candidate that a conflict blocks
C9_NeededUnblockedIsReinstated ==
  Swept =>
    \A C \in Pkgs :
      (UnusedNotGarbage(C) /\ NeededByRemaining(C) /\ C \notin BlockedCandidates) =>
        PkgState[C].Mode = "Keep"

\* C10: a candidate whose reinstatement a conflict blocks is still in Mode
\* Delete after Sweep, though a remaining package depends on it, and so is
\* every candidate whose current version depends on it, directly or through
\* a virtual package it provides
C10_ConflictBlocksReinstatement ==
  Swept =>
    \A C \in Pkgs :
      (UnusedNotGarbage(C) /\ Conflicted(C)) =>
        /\ PkgState[C].Mode = "Delete"
        /\ \A X \in Pkgs :
             (UnusedNotGarbage(X) /\ CurrentDependsOn(X, C)) =>
               PkgState[X].Mode = "Delete"

\* a mark_keep skipped inside an open action group of a read-only store
C5_Witness ==
  /\ last.op = "mark_keep"
  /\ last.pre.denied /\ last.pre.gl > 0
  /\ StateUnchanged /\ ~last.obs.denied

C9_Witness ==
  /\ Swept
  /\ \E C \in Pkgs :
       /\ UnusedNotGarbage(C) /\ NeededByRemaining(C)
       /\ C \notin BlockedCandidates
       /\ PkgState[C].Mode = "Keep"

\* Sweep left b, which the package n to be installed conflicts with, and
\* the candidates f and g that depend on it, scheduled for removal, though
\* the remaining a depends on b
C10_Witness ==
  /\ Swept
  /\ UnusedNotGarbage("b") /\ Conflicted("b") /\ NeededByRemaining("b")
  /\ UnusedNotGarbage("f") /\ CurrentDependsOn("f", "b")
  /\ UnusedNotGarbage("g") /\ CurrentDependsOn("g", "b")
  /\ \A x \in {"b", "f", "g"} : PkgState[x].Mode = "Delete"

(***************************************************************************)
(* Properties of the journal.                                              *)
(***************************************************************************)
\* the journal the running or the last save_selection_list is to replace
Target == files[TargetPath(saving.alt)]
\* a save_selection_list has been called and no load or damage came after
SaveCalled == saving.pc # "idle" \/ saving.result # "none"

\* C11: at every step of a save to the global journal or to an alternate
\* path, also when a step fails or the process stops between two steps,
\* the journal at the target path holds the complete previous content or
\* the complete new content, and the previous content when the save
\* reports failure.
C11_JournalOldOrNew ==
  /\ SaveCalled => Target \in {saving.prev, File(saving.buffer)}
  /\ saving.result = "false" => Target = saving.prev

\* the journal save_selection_list would write for the state in memory
PersistedContent == File(journal_buffer(PkgState, package_states))

\* C12: in every state between two operations, with an undamaged journal
\* on disk, dirty is true exactly when the persisted content of the state
\* in memory differs from the journal on disk; so dirty is false after a
\* successful save and true after an operation that changed a persisted
\* field.
C12_DirtyIffJournalDiffers ==
  (saving.pc = "idle" /\ ~files.statefile.corrupt)
    => (dirty <=> files.statefile # PersistedContent)

\* the last operation was a load that failed
LoadFailed == last.op = "load" /\ ~last.obs.result

\* the state of a load that fails before it reads the first record
NothingRead ==
  build_selection_list(cache, [exists |-> TRUE, sections |-> << >>, corrupt |-> TRUE],
                       last.args.b1, last.args.b2)

\* C13: a load of a corrupt journal fails and applies none of its records:
\* BaseState and ExtendedState are those of a load that fails before the
\* first record.
C13_CorruptLoadAppliesNothing ==
  LoadFailed => /\ PkgState = NothingRead.P
                /\ package_states = NothingRead.E

\* the fields of ExtendedState other than new_package
RoundTripFields(e) ==
  [selection_state |-> e.selection_state, reinstall |-> e.reinstall,
   remove_reason |-> e.remove_reason, forbidver |-> e.forbidver,
   candver |-> e.candver,
   previously_auto_package |-> e.previously_auto_package,
   user_tags |-> e.user_tags]

\* the journal the last load has read
LoadedFile == IF last.args.undo THEN files.status_fname ELSE files.statefile

\* the last operation was a load that succeeded, of the journal and the
\* automatic flags a save of the state before it had written
SavedThenLoaded ==
  /\ last.op = "load"
  /\ last.obs.result
  /\ ~last.args.b2
  /\ LoadedFile = File(journal_buffer(last.pre.P, last.pre.E))
  /\ files.extended_states = {p \in Pkgs : last.pre.P[p].Auto}

\* a package with a version that can be installed
Installable(p) == \E v \in VersionList(p) : Downloadable(p, v)

\* C14: saving the state and loading the saved journal gives every package
\* with an installable version the ExtendedState it had, in every field
\* other than new_package.
C14_RoundTrip ==
  SavedThenLoaded =>
    \A p \in Pkgs :
      Installable(p) =>
        RoundTripFields(package_states[p]) = RoundTripFields(last.pre.E[p])

\* C14 (amended): saving the state and loading the saved journal gives
\* every package with an installable version the selection_state,
\* remove_reason, forbidden_version and user_tags it had; reinstall is
\* reproduced for a package of which the current version is available and
\* is false otherwise, and candidate_version_override is reproduced for a
\* package in Mode Install unless it names the current version, and is
\* empty otherwise.
C14_RoundTripOfWrittenFields ==
  SavedThenLoaded =>
    \A p \in Pkgs :
      Installable(p) =>
        LET e == package_states[p]
            o == last.pre.E[p]
        IN /\ e.selection_state = o.selection_state
           /\ e.remove_reason = o.remove_reason
           /\ e.forbidver = o.forbidver
           /\ e.user_tags = o.user_tags
           /\ e.reinstall = /\ o.reinstall
                            /\ CurrentVer(p) # NoVer
                            /\ is_version_available(p, CurrentVer(p))
           /\ e.candver = IF /\ last.pre.P[p].Mode = "Install"
                             /\ o.candver # CurrentVer(p)
                          THEN o.candver ELSE NoVer

\* a state that was changed, saved to the global journal, of which the
\* save has made a backup, and loaded again: a package has its version
\* override and another a tag or a reinstall request
C14_Witness ==
  /\ SavedThenLoaded
  /\ ~last.args.undo
  /\ last.pre.dirty
  /\ files.statefile_old.exists
  /\ \E p \in Pkgs : Installable(p) /\ package_states[p].candver # NoVer
  /\ \E p \in Pkgs :
       /\ Installable(p)
       /\ package_states[p].user_tags # {} \/ package_states[p].reinstall

\* the last operation was a mark_install on a store that accepted it
InstallCalled == last.op = "mark_install" /\ ~last.pre.denied

\* the package was absent and not being installed, or installed and being
\* removed as unused, before the last operation
WasSetToManual(p) ==
  \/ CurrentVer(p) = NoVer /\ last.pre.P[p].Mode # "Install"
  \/ /\ CurrentVer(p) # NoVer
     /\ last.pre.P[p].Mode = "Delete"
     /\ last.pre.E[p].remove_reason = "unused"

\* C15: after mark_install(pkg, auto, reinstall) on a writable store
\* selection_state is Install, forbidden_version is empty, reinstall is the
\* argument, Mode is Install (Keep with ReInstall when a reinstall was
\* requested), and the Auto flag is false if the package was absent and not
\* being installed or was being removed as unused, and otherwise unchanged.
C15_MarkInstallPostcondition ==
  InstallCalled =>
    LET p == last.args.pkg
        ReInstall == last.args.b1
    IN /\ package_states[p].selection_state = "Install"
       /\ package_states[p].forbidver = NoVer
       /\ package_states[p].reinstall = ReInstall
       /\ IF ReInstall
          THEN PkgState[p].Mode = "Keep" /\ PkgState[p].ReInstall
          ELSE PkgState[p].Mode = "Install"
       /\ PkgState[p].Auto = IF WasSetToManual(p) THEN FALSE
                             ELSE last.pre.P[p].Auto

\* the commit of the last operation found the package unused: its sweep
\* removes it or cancels its installation
SweptAsUnused(p) == last.pre.gl = 0 /\ PkgState[p].Garbage

\* C15 (amended): after mark_install(pkg, auto, reinstall) on a writable
\* store forbidden_version is empty, reinstall is the argument and the Auto
\* flag is false if the package was absent and not being installed or was
\* being removed as unused, and otherwise unchanged; unless the commit's
\* sweep finds the package unused, Mode is Keep with ReInstall set when a
\* reinstall was requested and Install when it was not and the candidate
\* version is not the current version, and selection_state is Install
\* except for a package without a current version that the call leaves in
\* Mode Keep and commits.
C15_MarkInstallUnlessUnused ==
  InstallCalled =>
    LET p == last.args.pkg
        ReInstall == last.args.b1
    IN /\ package_states[p].forbidver = NoVer
       /\ package_states[p].reinstall = ReInstall
       /\ PkgState[p].Auto = IF WasSetToManual(p) THEN FALSE
                             ELSE last.pre.P[p].Auto
       /\ ~SweptAsUnused(p) =>
            /\ ReInstall => PkgState[p].Mode = "Keep" /\ PkgState[p].ReInstall
            /\ (~ReInstall /\ PkgState[p].CandidateVer \notin {NoVer, CurrentVer(p)})
                 => PkgState[p].Mode = "Install"
            /\ (PkgState[p].Mode = "Install" \/ CurrentVer(p) # NoVer
                  \/ last.pre.gl > 0)
                 => package_states[p].selection_state = "Install"

\* mark_install has scheduled the installation of an absent package that
\* was flagged automatic, and has committed it
C15_Witness ==
  /\ InstallCalled
  /\ ~last.args.b1
  /\ last.pre.gl = 0
  /\ CurrentVer(last.args.pkg) = NoVer
  /\ last.pre.P[last.args.pkg].Mode = "Keep"
  /\ last.pre.P[last.args.pkg].Auto
  /\ PkgState[last.args.pkg].Mode = "Install"
  /\ ~PkgState[last.args.pkg].Auto
  /\ package_states[last.args.pkg].selection_state = "Install"

\* the last operation was a mark_delete, of a package other than the
\* running tool, on a store that accepted it
DeleteAccepted ==
  /\ last.op = "mark_delete"
  /\ ~last.pre.denied
  /\ last.args.pkg # "aptitude"

\* C16: after mark_delete(pkg, purge, unused) on a writable store, for a
\* package other than the running tool and for every dependency graph,
\* Mode is Delete and selection_state is Purge if purge was requested or
\* unused was set with the purge-unused policy on, and DeInstall otherwise.
\* Stated for the removal of an installed package that the user requests
\* (unused not set), where no Sweep reinstates the package.
C16_MarkDeletePostcondition ==
  (DeleteAccepted /\ ~last.args.b2 /\ CurrentVer(last.args.pkg) # NoVer) =>
    LET p == last.args.pkg
        Purge == last.args.b1 \/ (last.args.b2 /\ aptcfg.PurgeUnused)
    IN /\ PkgState[p].Mode = "Delete"
       /\ package_states[p].selection_state =
            IF Purge THEN "Purge" ELSE "DeInstall"

\* C17: mark_delete writes remove_reason (unused if the unused argument is
\* set, else manual) only when the package was not in Mode Delete before
\* the call; the remove_reason of a package that was already scheduled for
\* deletion is left unchanged by the call and by a cascading re-visit.
C17_RemoveReasonFrame ==
  DeleteAccepted =>
    LET p == last.args.pkg IN
    package_states[p].remove_reason =
      IF last.pre.P[p].Mode = "Delete" THEN last.pre.E[p].remove_reason
      ELSE IF last.args.b2 THEN "unused" ELSE "manual"

\* mark_keep was called and not refused by the read-only guard
KeepAccepted == last.op = "mark_keep" /\ ~last.pre.denied

\* the selection_state internal_mark_keep writes for p
KeptSelection(p) ==
  IF CurrentVer(p) = NoVer
  THEN IF PkgState[p].Purge THEN "Purge" ELSE "DeInstall"
  ELSE IF last.args.b2 THEN "Hold" ELSE "Install"

RemovedAsUnused(p) ==
  /\ last.pre.gl = 0
  /\ aptcfg.DeleteUnused
  /\ PkgState[p].Garbage
  /\ CurrentVer(p) # NoVer

\* cleanup_after_change takes p for a package whose Mode changed without
\* its selection_state: the Mode differs from the snapshot's and the
\* selection_state mark_keep wrote is the snapshot's
KeepReconciled(p) ==
  /\ last.pre.gl = 0
  /\ last.pre.B.P[p].Mode # "Keep"
  /\ last.pre.B.E[p].selection_state = KeptSelection(p)

\* the selection_state cleanup_after_change gives such a package in Mode Keep
ReconciledSelection(p) ==
  IF CurrentVer(p) # NoVer THEN "Install"
  ELSE IF CurrentState(p) = "NotInstalled" THEN "Purge" ELSE "DeInstall"

KeptAgain ==
  mark_keep(Ctx, last.args.pkg, last.args.b1, last.args.b2, last.args.undo)

\* C19: calling mark_keep twice in a row with the same arguments leaves
\* BaseState and ExtendedState after the second call identical to those
\* after the first call, each call with its own commit when no transaction
\* is open
C19_MarkKeepIdempotent ==
  KeepAccepted =>
    /\ KeptAgain.P = PkgState
    /\ KeptAgain.E = package_states

\* set_candidate_version has just returned; it was called, past the read-only
\* guard, with a version of the package that is neither downloadable nor the
\* current version of a package that is not purged
InvalidTarget ==
  /\ last.op = "set_candidate_version"
  /\ saving.pc = "idle"
  /\ ~last.pre.denied
  /\ last.args.ver \in VersionList(last.args.pkg)
  /\ ~Downloadable(last.args.pkg, last.args.ver)
  /\ ~(/\ last.args.ver = CurrentVer(last.args.pkg)
       /\ CurrentState(last.args.pkg) # "ConfigFiles")

\* C20: set_candidate_version with such a version is a no-op: BaseState,
\* ExtendedState and dirty are unchanged, no transaction or Sweep runs, and
\* no error is raised
C20_InvalidTargetNoOp ==
  InvalidTarget =>
    /\ PkgState = last.pre.P
    /\ package_states = last.pre.E
    /\ dirty = last.pre.dirty
    /\ group_level = last.pre.gl
    /\ last.obs.swept = 0
    /\ last.obs.snapshots = 0
    /\ last.obs.commits = 0
    /\ last.obs.errors = {}
    /\ ~last.obs.denied

\* forbid_upgrade was called and not refused by the read-only guard
ForbidAccepted == last.op = "forbid_upgrade" /\ ~last.pre.denied

\* the forbidden version is the candidate of a package about to be installed
ForbidsPendingInstall(p) ==
  /\ last.pre.P[p].CandidateVer # NoVer
  /\ last.pre.P[p].CandidateVer = last.args.ver
  /\ last.pre.P[p].Mode = "Install"

\* C21: forbid_upgrade(pkg, v) sets forbidden_version to v; it changes Mode
\* (to Keep) only if v equals the current candidate version and the package
\* was in Mode Install (and then it does, unless v was forbidden already and
\* the call had nothing to do); in every other case Mode and selection_state
\* are unchanged after the call
C21_ForbidUpgradePostcondition ==
  ForbidAccepted =>
    LET p == last.args.pkg IN
    /\ package_states[p].forbidver = last.args.ver
    /\ IF ForbidsPendingInstall(p)
       THEN \/ PkgState[p].Mode = "Keep"
            \/ /\ PkgState[p].Mode = last.pre.P[p].Mode
               /\ last.pre.E[p].forbidver = last.args.ver
       ELSE /\ PkgState[p].Mode = last.pre.P[p].Mode
            /\ package_states[p].selection_state
                 = last.pre.E[p].selection_state

\* C21 witness: forbid_upgrade named the candidate of a package in Mode
\* Install, outside any transaction, and the package is kept
C21_Witness ==
  /\ ForbidAccepted
  /\ last.pre.gl = 0
  /\ ForbidsPendingInstall(last.args.pkg)
  /\ package_states[last.args.pkg].forbidver = last.args.ver
  /\ PkgState[last.args.pkg].Mode = "Keep"

\* C22: in every reachable state, for every package with a non-empty
\* forbidden_version, the package's CandidateVersion is not the version
\* named by forbidden_version
C22_ForbiddenNeverCandidate ==
  \A p \in Pkgs :
    package_states[p].forbidver # NoVer =>
      PkgState[p].CandidateVer # package_states[p].forbidver

\* attach_user_tag has just returned; it was called, past the read-only
\* guard, with the valid tag, which the package already carried
AttachedAgain ==
  /\ last.op = "attach_user_tag"
  /\ saving.pc = "idle"
  /\ ~last.pre.denied
  /\ last.args.ver = TagNo("t")
  /\ "t" \in last.pre.E[last.args.pkg].user_tags

\* C23: attach_user_tag with a tag already attached to the package returns
\* success, raises no error and leaves the package's tag set and all other
\* state unchanged
C23_AttachPresentTag ==
  AttachedAgain =>
    /\ last.obs.result
    /\ last.obs.errors = {}
    /\ package_states = last.pre.E
    /\ PkgState = last.pre.P
    /\ user_tags = last.pre.tags
    /\ dirty = last.pre.dirty
    /\ group_level = last.pre.gl
    /\ new_package_count = last.pre.npc
    /\ ~last.made

\* C23 witness: a tag was attached to a package, with an undo item, and the
\* same tag is attached once more: the call succeeds and adds no undo item
C23_Witness ==
  /\ AttachedAgain
  /\ last.prev_made
  /\ last.obs.result
  /\ ~last.made
  /\ package_states[last.args.pkg].user_tags = {"t"}

\* a load has just succeeded with dselect tracking enabled, and the journal
\* it read holds a record of p whose Dselect-State is not the selection of p
\* in dpkg's database
DselectChanged(p) ==
  /\ last.op = "load"
  /\ last.obs.result
  /\ aptcfg.TrackDselectState
  /\ VersionList(p) # {}
  /\ \E i \in DOMAIN LoadedFile.sections :
       /\ LoadedFile.sections[i].Package = p
       /\ StateOf(LoadedFile.sections[i].DselectState) # cache.selected[p]

\* the engine does not intend to remove a package that dpkg's database
\* selects for installation
AlignedWithLive(p) ==
  /\ PkgState[p].Mode # "Delete"
  /\ package_states[p].selection_state \notin {"DeInstall", "Purge"}

\* C24: on load with dselect tracking enabled, for every journal record whose
\* stored Dselect-State differs from the package's live external selection,
\* the engine aligns its intent with the live value: a package that is
\* installed and externally selected Install does not finish the load in
\* Mode Delete or with selection_state DeInstall or Purge
C24_LoadFollowsDselect ==
  \A p \in Pkgs :
    (/\ DselectChanged(p)
     /\ CurrentVer(p) # NoVer
     /\ cache.selected[p] = "Install") => AlignedWithLive(p)

\* the selection of p is not the one last given to dpkg
SelectionDiffers(E, p) ==
  /\ E[p].original_selection_state # E[p].selection_state
  /\ ~(E[p].original_selection_state = "Unknown"
       /\ E[p].selection_state = "DeInstall")

\* a call of save that was not skipped and has opened its file returns in
\* this step
SaveReturnsNow ==
  /\ saving.pc \notin {"idle", "stopped"}
  /\ saving'.pc = "idle"

\* the package had a selection to emit when the call started: the loop has
\* not run yet, or it has and put the package in dpkg_selections
DifferedAtCall(p) ==
  IF saving.pc = "opened" THEN SelectionDiffers(package_states, p)
  ELSE p \in saving.selections

\* C25: on save, for every package with an installable version whose
\* selection_state differs from original_selection_state (except original
\* Unknown with current DeInstall) the selection is emitted to dpkg's
\* database and original_selection_state becomes selection_state; nothing is
\* emitted for a package without such a difference, and after the save no
\* package has a selection left to emit
C25_SaveEmitsSelections ==
  [][SaveReturnsNow =>
       \A p \in Pkgs :
         VersionList(p) # {} =>
           /\ ~SelectionDiffers(package_states', p)
           /\ IF DifferedAtCall(p)
              THEN /\ files'.selections[p] = package_states'[p].selection_state
                   /\ package_states'[p].original_selection_state =
                        package_states'[p].selection_state
              ELSE /\ files'.selections[p] = files.selections[p]
                   /\ package_states'[p].original_selection_state =
                        package_states[p].original_selection_state]_vars

\* the last operation was a load, no save has started since, and the journal
\* it was to read does not exist
LoadedWithoutJournal ==
  /\ last.op = "load"
  /\ saving.pc = "idle"
  /\ ~LoadedFile.exists

\* C26: when the journal file does not exist, load succeeds without an error,
\* treats the run as first-run initialization (no package is left flagged
\* new_package and new_package_count is 0), and sets dirty so that the next
\* save writes a journal
C26_MissingJournalFirstRun ==
  LoadedWithoutJournal =>
    /\ last.obs.result
    /\ last.obs.errors = {}
    /\ \A p \in Pkgs : ~package_states[p].new_package
    /\ new_package_count = 0
    /\ dirty

\* C26 witness: a store that counted new packages and was not dirty is
\* loaded again from an alternate journal that does not exist
C26_Witness ==
  /\ LoadedWithoutJournal
  /\ nops > 0
  /\ last.pre.npc > 0
  /\ ~last.pre.dirty
  /\ last.obs.result

\* the arrays of the engine do not exist, are about to be freed by the
\* deletion of the cache file, or are about to be built by Open
ArraysFreedOrRebuilt ==
  \/ ~apt.cache_file
  \/ apt.pc \in {"close_file", "load_open"}

\* C27: when the cache is closed or reloaded, the resolver manager is
\* destroyed, its thread stopped and joined, before the package cache and the
\* arrays are freed; no background resolver exists while the arrays are being
\* freed or rebuilt
C27_NoResolverWhileFreed ==
  ArraysFreedOrRebuilt => (~apt.resman /\ apt.reader = "none")

\* C27 witness: the cache file is about to be deleted after an installer
\* run, and the thread of the resolver was reading when the manager was
\* destroyed
C27_Witness ==
  /\ apt.pc = "close_file"
  /\ apt.cache_file
  /\ apt.joined
  /\ apt.rval = "success"

\* the last save released the lock and did not get it back
SaveLostLock ==
  /\ last.op = "save"
  /\ "Could not regain the system lock" \in last.obs.errors

\* C28: every release of the system lock is followed by an attempt to
\* regain it before the engine writes again; a failed attempt is an error
\* for the caller (neither save nor the installer run reports success), and
\* no later mutation or save goes on as if the lock were held: the program
\* holds the lock, or the store is read-only, whenever operations of the
\* engine can be called
C28_LockRegainedOrSignalled ==
  /\ SaveLostLock => ~last.obs.result
  /\ "Could not regain the system lock" \in apt.errors => apt.rval = "failure"
  /\ (apt.pc = "main" /\ apt.cache_file /\ saving.pc = "idle") =>
       (system_lock.have \/ read_only)

\* the last call closed the outermost action group on a store that allows
\* changes
GroupClosed ==
  /\ last.op = "end"
  /\ last.pre.gl = 1
  /\ ~last.pre.denied

\* the last call closed an inner action group: the caller's, or the one an
\* operation, or the undo of an operation, opens for itself inside the
\* caller's
NestedCommit ==
  \/ last.op = "end" /\ last.pre.gl > 1
  \/ last.op \in GroupOps \ {"undo"} /\ last.pre.gl > 0 /\ ~last.pre.denied
  \/ /\ last.op = "undo"
     /\ last.pre.gl > 0
     /\ last.pre.items[last.args.ver].type = "apt_undoer"

\* C29: at an outermost commit the steps happen in the order Sweep, diff
\* against the Snapshot, Snapshot refresh, notification: Sweep runs once
\* (when unused packages are to be removed at all), the
\* diff is made against the Snapshot of before the commit and on the state
\* Sweep left, so every package whose Mode the commit (Sweep included)
\* leaves different from that Snapshot is in the visibly-changed set; the
\* Snapshot is then the final state; observers are notified exactly once,
\* and never by a nested commit
C29_CommitOrder ==
  /\ GroupClosed =>
       /\ aptcfg.DeleteUnused => last.obs.swept = 1
       /\ last.obs.commits = 1
       /\ last.obs.snapshots = 1
  /\ Committed =>
       /\ last.obs.notified = 1
       /\ last.obs.commit_pre.B = last.pre.B
       /\ \A p \in Pkgs :
            /\ last.obs.commit_pre.P[p].Mode = PkgState[p].Mode
            /\ PkgState[p].Mode # last.pre.B.P[p].Mode => p \in last.obs.changed
       /\ backup_state = [P |-> PkgState, E |-> package_states]
  /\ NestedCommit =>
       /\ last.obs.notified = 0
       /\ last.obs.commits = 0
       /\ last.obs.swept = 0

\* C29 witness: the outermost group is closed with an undo sink, and Sweep
\* changes the Mode of a package, which is in the visibly-changed set and
\* gets an undo record
C29_Witness ==
  /\ GroupClosed
  /\ last.made
  /\ last.obs.swept = 1
  /\ \E p \in Pkgs :
       /\ last.obs.sweep_pre.P[p].Mode # PkgState[p].Mode
       /\ p \in last.obs.changed

(***************************************************************************)
(* Cascading auto-removal: what held of a package when it was offered.     *)
(***************************************************************************)
\* the packages the last operation's cascade handed to the delete path
Offered == last.obs.offered

HasInstalledCurrentVer(p) == CurrentVer(p) # NoVer /\ is_installed(p)

RequiredOnItsOwn(p) ==
  \/ p \in cache.essential
  \/ p \in cache.important
  \/ Priority(p) \in {"important", "required"}

\* a reverse dependency of a counted type from a package that stays or
\* becomes installed under the modes P
SurvivingRequirer(P, p) ==
  \E d \in Range(cache.deps) :
     /\ d.target = p
     /\ \/ d.type \in {"Depends", "PreDepends"}
        \/ d.type = "Recommends"
           /\ (aptcfg.InstallRecommends \/ aptcfg.RecommendsImportant
               \/ aptcfg.KeepRecommends)
        \/ d.type = "Suggests"
           /\ (aptcfg.SuggestsImportant \/ aptcfg.KeepSuggests)
     /\ \/ is_installed(d.pkg) /\ P[d.pkg] # "Delete"
        \/ P[d.pkg] = "Install"

OfferedRightly(o) ==
  /\ HasInstalledCurrentVer(o.pkg)
  /\ o.Auto
  /\ ~RequiredOnItsOwn(o.pkg)
  /\ ~SurvivingRequirer(o.Mode, o.pkg)

\* C30: every package the cascade of a delete schedules for deletion, reached
\* directly or as a provider of a virtual dependency target, had when it was
\* offered an installed current version, the Auto flag, no Essential,
\* Important or Required priority, and no counted reverse dependency from a
\* package that remains or becomes installed
C30_CascadeOffersOnlyUnused == \A o \in Offered : OfferedRightly(o)

\* the direct offers meet all four conditions; the offers of providers meet
\* every condition but the one on priority
C30_DirectOffers == \A o \in Offered : o.via = "direct" => OfferedRightly(o)
C30_ProviderOffers ==
  \A o \in Offered :
     o.via = "provider" =>
       /\ HasInstalledCurrentVer(o.pkg)
       /\ o.Auto
       /\ ~SurvivingRequirer(o.Mode, o.pkg)
C30_DirectOffered == \E o \in Offered : o.via = "direct"
C30_RequiredKeptDirect ==
  last.op = "mark_delete" /\ last.args.pkg = "a" /\ Offered # {}
    => "e" \notin {o.pkg : o \in Offered}

(***************************************************************************)
(* Cascading auto-removal: the dependency clauses that are walked.         *)
(***************************************************************************)
\* mark_delete has just returned without an error, with Delete-Unused on
CascadeRan ==
  /\ last.op = "mark_delete"
  /\ ~last.obs.denied
  /\ last.obs.errors = {}
  /\ aptcfg.DeleteUnused

\* the packages the last mark_delete walked the dependencies of: its target
\* and the packages its cascade offered
Cascaded ==
  {p \in {last.args.pkg} \cup {o.pkg : o \in Offered} : CurrentVer(p) # NoVer}

\* the clauses of the current version of p
ClausesOf(p) == Range(DependsList(p, CurrentVer(p)))

KeepRecommendsPolicy ==
  aptcfg.InstallRecommends \/ aptcfg.RecommendsImportant \/ aptcfg.KeepRecommends
KeepSuggestsPolicy == aptcfg.SuggestsImportant \/ aptcfg.KeepSuggests

\* the part of the claim that does not depend on the policy: the hard
\* clauses are walked, and nothing is offered through an unwalked clause
HardClausesWalked ==
  /\ \A p \in Cascaded : \A d \in ClausesOf(p) :
        d.type \in {"Depends", "PreDepends"} => d \in last.obs.walked
  /\ \A o \in Offered : o.clause \in last.obs.walked

\* C31 as stated: Recommends (Suggests) clauses are walked only if the
\* keep-recommends-installed (keep-suggests-installed) policy is not set
C31_SoftClausesWalkedOnlyWithoutPolicy ==
  CascadeRan =>
    /\ HardClausesWalked
    /\ \A d \in last.obs.walked :
          /\ d.type = "Recommends" => ~KeepRecommendsPolicy
          /\ d.type = "Suggests" => ~KeepSuggestsPolicy

\* C31 amended: on a cascading delete of P with current version V, the
\* Depends and PreDepends clauses of V are always walked, and the Recommends
\* (respectively Suggests) clauses of V are walked only if the
\* keep-recommends-installed (respectively keep-suggests-installed) policy
\* is set; targets of clauses that are not walked are never offered for
\* removal through that clause
C31_SoftClausesWalkedOnlyWithPolicy ==
  CascadeRan =>
    /\ HardClausesWalked
    /\ \A d \in last.obs.walked :
          /\ d.type = "Recommends" => KeepRecommendsPolicy
          /\ d.type = "Suggests" => KeepSuggestsPolicy
          /\ d.type \in {"Depends", "PreDepends", "Recommends", "Suggests"}

\* C31 witness: a delete walked the Depends and the Recommends clause of its
\* target and left the Suggests clause alone, the recommends policy being
\* set and the suggests policy not; the recommended package was offered
C31_Witness ==
  /\ CascadeRan
  /\ last.args.pkg = "a"
  /\ KeepRecommendsPolicy /\ ~KeepSuggestsPolicy
  /\ {d.type : d \in last.obs.walked} = {"Depends", "Recommends"}
  /\ \E o \in Offered : o.clause.type = "Recommends"
  /\ \A o \in Offered : o.clause.type # "Suggests"

(***************************************************************************)
(* Cascading auto-removal: the visited list.                               *)
(***************************************************************************)
\* the walks of the last operation, and the targets of its top-level calls
Descents == last.obs.descents
Tops == last.obs.tops

\* internal_mark_delete walks the dependencies of p unless it returns early
Walkable(p) ==
  /\ aptcfg.DeleteUnused
  /\ CurrentVer(p) # NoVer
  /\ ~(is_installed(p) /\ p = "aptitude")

\* C32: a top-level mark_delete returns on every dependency graph, cycles
\* included: within one top-level call the dependencies of each package are
\* walked at most once (so a call walks no more than every package once),
\* and every package a call hands to the delete path is walked in that call,
\* whatever earlier top-level calls walked
C32_EachPackageWalkedOncePerCall ==
  /\ \A i, j \in DOMAIN Descents : Descents[i] = Descents[j] => i = j
  /\ Len(Descents) <= Len(Tops) * Cardinality(Pkgs)
  /\ \A k \in DOMAIN Tops :
        Walkable(Tops[k]) => [top |-> k, pkg |-> Tops[k]] \in Range(Descents)
  /\ \A o \in Offered :
        Walkable(o.pkg) => [top |-> o.top, pkg |-> o.pkg] \in Range(Descents)

\* C32 witness: mark_delete was called on an automatically installed package
\* of the cycle that an earlier top-level call had already removed (its
\* remove_reason was manual, which only a top-level call on it leaves); the
\* call walked it again, walked its dependency, came back to its target
\* through the dependency cycle, directly and as the provider of a virtual
\* package, and stopped there
C32_Witness ==
  /\ last.op = "mark_delete"
  /\ Len(Tops) = 1
  /\ Tops[1] \in cache.autoflag
  /\ last.pre.P[Tops[1]].Mode = "Delete"
  /\ last.pre.E[Tops[1]].remove_reason = "manual"
  /\ \A via \in {"direct", "provider"} :
        \E o \in Offered :
           /\ o.via = via
           /\ o.pkg = Tops[1]
           /\ [top |-> 1, pkg |-> o.clause.pkg] \in Range(Descents)
  /\ Len(Descents) = 2

(***************************************************************************)
(* Sweep: the packages flagged Garbage.                                    *)
(***************************************************************************)
\* the last operation ran sweep() with Delete-Unused on; the marks and the
\* extended states as sweep found them and as it left them
SweepDone == last.obs.swept > 0 /\ last.obs.commits > 0
SweepFound == last.obs.sweep_pre
SweepLeft == last.obs.commit_pre

\* flagged Garbage when sweep started, with a current version that is
\* installed and not reduced to its configuration files
GarbageInstalled(p) ==
  /\ SweepFound.P[p].Garbage
  /\ CurrentVer(p) # NoVer
  /\ CurrentState(p) # "ConfigFiles"

\* C33: after sweep with Delete-Unused on, every package flagged Garbage
\* that has a current installed version is in Mode Delete; if it was not in
\* Mode Delete before sweep it has remove_reason unused and selection_state
\* Purge under Purge-Unused and DeInstall otherwise; if it was in Mode Delete
\* already, sweep left its remove_reason and selection_state as they were
C33_GarbageScheduledForRemoval ==
  SweepDone =>
    \A p \in Pkgs :
      GarbageInstalled(p) =>
        /\ SweepLeft.P[p].Mode = "Delete"
        /\ IF SweepFound.P[p].Mode # "Delete"
           THEN /\ SweepLeft.E[p].remove_reason = "unused"
                /\ SweepLeft.E[p].selection_state
                     = IF aptcfg.PurgeUnused THEN "Purge" ELSE "DeInstall"
           ELSE /\ SweepLeft.E[p].remove_reason = SweepFound.E[p].remove_reason
                /\ SweepLeft.E[p].selection_state
                     = SweepFound.E[p].selection_state

\* C33 witness: sweep found one Garbage package already in Mode Delete for a
\* manual reason and another one still kept, and scheduled the second
C33_Witness ==
  /\ SweepDone
  /\ \E p, q \in Pkgs :
        /\ GarbageInstalled(p) /\ GarbageInstalled(q)
        /\ SweepFound.P[p].Mode = "Delete"
        /\ SweepFound.E[p].remove_reason = "manual"
        /\ SweepLeft.E[p].remove_reason = "manual"
        /\ SweepFound.P[q].Mode = "Keep"
        /\ SweepLeft.P[q].Mode = "Delete"
        /\ SweepLeft.E[q].remove_reason = "unused"

(***************************************************************************)
(* Sweep: the reinstatement candidates.                                    *)
(***************************************************************************)
\* not flagged Garbage and scheduled for removal as unused when sweep started
ReinstatementCandidate(p) ==
  /\ ~SweepFound.P[p].Garbage
  /\ SweepFound.P[p].Mode = "Delete"
  /\ SweepFound.E[p].remove_reason = "unused"

\* the candidates sweep retained: its set not_orphaned
Retained == last.obs.sweep_sets.not_orphaned
\* the candidates that conflict with a package that stays or gets installed
Blocked == last.obs.sweep_sets.blocked

\* C34: sweep changes the Mode only of packages flagged Garbage and of
\* retained reinstatement candidates: every candidate that is blocked or not
\* retained is still in Mode Delete with remove_reason unused after sweep,
\* every retained candidate is in Mode Keep, and every other package that is
\* not flagged Garbage has the Mode it had before sweep
C34_SweepModeFrame ==
  SweepDone =>
    /\ Retained \cap Blocked = {}
    /\ \A p \in Pkgs :
         /\ p \in Retained => ReinstatementCandidate(p)
         /\ p \in Blocked => ReinstatementCandidate(p)
         /\ ~SweepFound.P[p].Garbage =>
              IF p \in Retained
              THEN SweepLeft.P[p].Mode = "Keep"
              ELSE IF ReinstatementCandidate(p)
              THEN /\ SweepLeft.P[p].Mode = "Delete"
                   /\ SweepLeft.E[p].remove_reason = "unused"
              ELSE SweepLeft.P[p].Mode = SweepFound.P[p].Mode

\* C34 witness: sweep left a blocked candidate and a candidate that it did
\* not retain scheduled for removal as unused, and left alone the Mode of a
\* package about to be installed
C34_Witness ==
  /\ SweepDone
  /\ \E q, r, o \in Pkgs :
        /\ q \in Blocked /\ SweepLeft.P[q].Mode = "Delete"
        /\ ReinstatementCandidate(r) /\ r \notin Retained \cup Blocked
        /\ SweepLeft.P[r].Mode = "Delete"
        /\ SweepLeft.E[r].remove_reason = "unused"
        /\ ~SweepFound.P[o].Garbage /\ ~ReinstatementCandidate(o)
        /\ SweepFound.P[o].Mode = "Install" /\ SweepLeft.P[o].Mode = "Install"

\* sweep retained a candidate and kept it again while another package was
\* about to be installed
C34_RetainedKept ==
  /\ SweepDone
  /\ \E p, o \in Pkgs :
        /\ p \in Retained
        /\ SweepFound.P[p].Mode = "Delete" /\ SweepLeft.P[p].Mode = "Keep"
        /\ SweepFound.P[o].Mode = "Install" /\ SweepLeft.P[o].Mode = "Install"

(***************************************************************************)
(* The conflict oracle against the relation it decides.                    *)
(***************************************************************************)
\* the version of p that is installed once the pending marks are applied
ResultingVersion(p) ==
  CASE PkgState[p].Mode = "Install" -> PkgState[p].InstallVer
    [] PkgState[p].Mode = "Keep" /\ is_installed(p) -> CurrentVer(p)
    [] OTHER -> NoVer

\* what version w of package q offers to a clause on the package named name:
\* its own version number when name is q, the provided version for each
\* provision of name by w
OfferedVersions(q, w, name) ==
  (IF q = name THEN {w} ELSE {})
  \cup {r.pver : r \in {s \in Range(cache.provides) :
                          s.owner = q /\ s.over = w /\ s.name = name}}

\* the Conflicts/Breaks clause d is satisfied by version w of package q
ClauseHits(d, q, w) ==
  /\ d.type \in {"Conflicts", "Breaks"}
  /\ w # NoVer
  /\ \E o \in OfferedVersions(q, w, d.target) : CheckDep(o, d.op, d.tver)

\* version v of p conflicts with the resulting installed version of
\* another package, in either direction
InConflict(p, v) ==
  \E q \in Pkgs \ {p} :
    \/ \E d \in Range(cache.deps) :
         d.pkg = p /\ d.ver = v /\ ClauseHits(d, q, ResultingVersion(q))
    \/ \E d \in Range(cache.deps) :
         /\ d.pkg = q /\ d.ver = ResultingVersion(q)
         /\ ClauseHits(d, p, v)

\* C35: is_conflicted reports a clause for a version exactly when a
\* Conflicts/Breaks clause of that version is satisfied by the resulting
\* installed version of a different package, or such a clause of the
\* resulting installed version of a different package is satisfied by it,
\* directly or through a provision; the clause it reports is a
\* Conflicts/Breaks clause; and a package in Mode Delete, or in Mode Keep
\* and not installed, has no resulting installed version
C35_ConflictedExactly ==
  /\ \A p \in Pkgs : \A v \in VersionList(p) \cup {NoVer} :
       /\ (is_conflicted(PkgState, p, v) # NoDep) <=> (v # NoVer /\ InConflict(p, v))
       /\ is_conflicted(PkgState, p, v) # NoDep =>
            is_conflicted(PkgState, p, v).type \in {"Conflicts", "Breaks"}
  /\ \A p \in Pkgs :
       /\ install_version(PkgState, p) = ResultingVersion(p)
       /\ PkgState[p].Mode = "Delete" => install_version(PkgState, p) = NoVer
       /\ PkgState[p].Mode = "Keep" /\ ~is_installed(p) =>
            install_version(PkgState, p) = NoVer

\* the upgrade of x and the installation of y are both pending: x 2 and y
\* conflict with z through the provision of u, y no longer conflicts with
\* the resulting x 2 although it does with the current x 1, and the clause
\* of x 2 on its own package reports nothing on its own
C35_Witness ==
  /\ cache = ConflictCache
  /\ last.op = "mark_install"
  /\ PkgState["x"].Mode = "Install" /\ PkgState["x"].InstallVer = 2
  /\ PkgState["y"].Mode = "Install"
  /\ PkgState["z"].Mode = "Keep"
  /\ is_conflicted(PkgState, "z", 1).target = "u"
  /\ is_conflicted(PkgState, "x", 2).pkg = "z"
  /\ is_conflicted(PkgState, "y", 1).pkg = "z"
  /\ is_conflicted(PkgState, "x", 1).pkg = "y"

(***************************************************************************)
(* Sweep and the conflicts of what it reinstates.                          *)
(***************************************************************************)
\* the reinstatement candidates sweep reverted to Mode Keep
Reinstated ==
  {p \in Pkgs : ReinstatementCandidate(p) /\ SweepLeft.P[p].Mode = "Keep"}

\* C36: after sweep, the current version of every package that sweep
\* reinstated conflicts with the resulting installed version of no other
\* package, another package reinstated by the same sweep included
C36_SweepIntroducesNoConflict ==
  SweepDone =>
    \A p \in Reinstated : is_conflicted(SweepLeft.P, p, CurrentVer(p)) = NoDep

\* the same, for conflicts with packages the sweep did not reinstate: a
\* reinstated package conflicts only with another reinstated package
C36_ConflictsOnlyAmongReinstated ==
  SweepDone =>
    \A p \in Reinstated :
      LET d == is_conflicted(SweepLeft.P, p, CurrentVer(p))
      IN d # NoDep => {d.pkg, d.target} \subseteq Reinstated

(***************************************************************************)
(* A save that fails before the new journal is in place.                   *)
(***************************************************************************)
\* save_selection_list returns false in this step from one of the failures
\* that precede the replacement of the journal: the open or the write of the
\* new file, or the unlink, link or rename that rotate it in
SaveFailsBeforeReplace ==
  /\ saving.pc \in {"idle", "opened", "closed", "unlinked", "linked"}
  /\ ~(saving.pc = "closed" /\ saving.alt)
  /\ nops' = nops \/ saving.pc = "idle"
  /\ saving'.pc = "idle"
  /\ saving'.result = "false"

\* the package had a selection to emit when the failing call started
PendingAtCall(p) ==
  IF saving.pc \in {"idle", "opened"} THEN SelectionDiffers(package_states, p)
  ELSE p \in saving.selections

\* C37: when save fails before the new journal has replaced the old one, no
\* package's original_selection_state has changed: every selection that was
\* to be emitted when the call started is still to be emitted after it
C37_FailedSaveKeepsPending ==
  [][SaveFailsBeforeReplace =>
       \A p \in Pkgs :
         VersionList(p) # {} =>
           /\ PendingAtCall(p) => SelectionDiffers(package_states', p)
           /\ saving.pc \in {"idle", "opened"} =>
                package_states'[p].original_selection_state =
                  package_states[p].original_selection_state]_vars

(***************************************************************************)
(* read_only and the lock at the return of a load.                         *)
(***************************************************************************)
\* build_selection_list has just returned
LoadReturned ==
  /\ last.op = "load"
  /\ apt.pc = "main"
  /\ nops > 0

\* C38: when the load returns, with success or after it failed to take
\* the lock or to parse the journal, read_only is true exactly when the
\* lock is not held
C38_ReadOnlyIffNoLock ==
  LoadReturned => (read_only <=> lock = -1)

\* the same for the loads that succeed or are refused the lock
C38_ExceptCorruptJournal ==
  (LoadReturned /\ ~(\E e \in last.obs.errors : e = "Problem parsing, is it corrupt or malformed?"))
    => (read_only <=> lock = -1)

(***************************************************************************)
(* The count of new packages.                                              *)
(***************************************************************************)
\* the packages with an installable version that are flagged new
NewPackages(E) == {p \in Pkgs : VersionList(p) # {} /\ E[p].new_package}

\* the last operation undid a forget_new and nothing had come between them
ForgetNewUndone ==
  /\ last.op = "undo"
  /\ last.args.ver \in DOMAIN last.pre.items
  /\ last.pre.items[last.args.ver].type = "forget_undoer"
  /\ last.prev_made
  /\ ~last.obs.denied

\* C39: new_package_count is the number of packages with an installable
\* version whose new_package flag is set, in every state that load,
\* set_new_flag, forget_new and the undo of forget_new reach; and the undo
\* of a forget_new gives the count the number of packages with an
\* installable version that the forget_new had cleared or left flagged
C39_NewPackageCountExact ==
  /\ new_package_count = Cardinality(NewPackages(package_states))
  /\ ForgetNewUndone =>
       new_package_count =
         Cardinality(NewPackages(last.pre.E)
                     \cup {p \in Range(last.pre.items[last.args.ver].packages) :
                             VersionList(p) # {}})

(***************************************************************************)
(* The undo of set_candidate_version.                                      *)
(***************************************************************************)
\* the last operation was a set_candidate_version with an undo sink that
\* changed the candidate version of its package
CandidateChanged ==
  /\ last.op = "set_candidate_version"
  /\ last.args.undo
  /\ PkgState[last.args.pkg].CandidateVer # last.pre.P[last.args.pkg].CandidateVer

\* the undo sink has received a record that holds the previous candidate
\* version of the package
CandidateRecorded ==
  /\ last.made
  /\ \E i \in DOMAIN undo_items :
       /\ undo_items[i].type = "candver_undoer"
       /\ undo_items[i].pkg = last.args.pkg
       /\ undo_items[i].oldver = last.pre.P[last.args.pkg].CandidateVer

\* the last operation undid a record of set_candidate_version on a store
\* that allowed it
CandidateUndone ==
  /\ last.op = "undo"
  /\ last.args.ver \in DOMAIN last.pre.items
  /\ last.pre.items[last.args.ver].type = "candver_undoer"
  /\ ~last.pre.denied

\* the undo left the package with the candidate version of the record
CandidateRestored ==
  LET it == last.pre.items[last.args.ver]
  IN PkgState[it.pkg].CandidateVer = it.oldver

\* C40: a set_candidate_version that is given an undo sink and changes
\* the candidate version yields an undo record with the previous candidate
\* version, with no transaction open and inside one, and undoing the record
\* restores that version
C40_CandidateChangeUndoable ==
  /\ CandidateChanged => CandidateRecorded
  /\ CandidateUndone => CandidateRestored

\* the same with no transaction open at the call
C40_RecordedOutsideTransaction ==
  (CandidateChanged /\ last.pre.gl = 0) => CandidateRecorded

\* the undo of a record restores the candidate version
C40_UndoRestores ==
  CandidateUndone => CandidateRestored

====
